---- MODULE Spec2Model ----
(***************************************************************************)
(* A model of the Seurat rendering engine: the resource tables, shader and *)
(* material construction, the frame textures and the per-frame pass loop.  *)
(***************************************************************************)
EXTENDS Integers, Sequences, FiniteSets, TLC

VARIABLES
    resources,              \* Scene::resources: the four IndexMap tables
    input,                  \* arguments drawn for Shader::new / Material::new
    result,                 \* outcome of the last Material::new
    draw_commands,          \* commands recorded by the last draw / dispatch
    surface_configuration,  \* Context::surface_configuration (width, height)
    window_size,            \* window.inner_size()
    projection,             \* active camera's projection (aspect)
    frame_textures,         \* Engine::frame_textures
    next_texture,           \* next GPU texture identity handed out by the device
    pc,                     \* position of the frame loop
    pass_index,             \* position of `for pass in passes`
    encoder,                \* commands recorded in the frame's command encoder
    submitted,              \* command buffer of the last submitted frame
    contents,               \* per GPU texture: the frame and pass that last wrote it
    observed,               \* per pass of the frame: what its draws read
    frame,                  \* number of the current frame
    control_flow,           \* winit ControlFlow
    last_call,              \* the handler that ran last, its Engine::resize call and
                            \* whether the handler before it made the same call
    inserts,                \* number of table inserts made by the load so far
    scene,                  \* Scene::root: the entity tree, as a table of entities
    stack,                  \* EntityIter::stack
    visited,                \* the entities an EntityIter has yielded so far
    loading,                \* Engine::load: its inputs and locals
    frame_events,           \* surface and queue calls of the current frame, in order
    submitted_in            \* the frame of the last submission and its frame textures

vars == <<resources, input, result, draw_commands, surface_configuration, window_size,
          projection, frame_textures, next_texture, pc, pass_index, encoder,
          submitted, contents, observed, frame, control_flow, last_call, inserts,
          scene, stack, visited, loading, frame_events, submitted_in>>

frameVars == <<surface_configuration, window_size, projection,
               frame_textures, next_texture, pass_index, encoder, submitted,
               contents, observed, frame, control_flow, last_call, frame_events,
               submitted_in>>

engineVarsButPc == <<frameVars, scene, stack, visited, loading>>

-----------------------------------------------------------------------------
(* Bounds                                                                  *)

MaxBindings == 2
MaxData == 3

\* Option<T>
None == [some |-> FALSE]
Some(v) == [some |-> TRUE, value |-> v]

-----------------------------------------------------------------------------
(* IndexMap (scene.rs LoadedResources): an insertion-ordered map, kept as  *)
(* a sequence of key/value entries.                                        *)

EmptyTable == << >>

Keys(table) == {table[i].key : i \in 1..Len(table)}

contains_key(table, key) == key \in Keys(table)

\* IndexMap::get_index_of: the 0-based position of the key, or None
get_index_of(table, key) ==
    IF contains_key(table, key)
    THEN Some((CHOOSE i \in 1..Len(table) : table[i].key = key) - 1)
    ELSE None

\* IndexMap::get
get(table, key) ==
    IF contains_key(table, key)
    THEN Some(table[get_index_of(table, key).value + 1].value)
    ELSE None

\* table[index]: Index<usize>, 0-based
at(table, index) == table[index + 1].value

\* a map that moves an overwritten key to the end
insert_MoveToEnd(table, key, value) ==
    IF contains_key(table, key)
    THEN Append(SelectSeq(table, LAMBDA e : e.key # key), [key |-> key, value |-> value])
    ELSE Append(table, [key |-> key, value |-> value])

\* IndexMap::insert: a present key keeps its position and has its value
\* replaced, a new key is appended at the end
insert(table, key, value) ==
    IF contains_key(table, key)
    THEN [table EXCEPT ![get_index_of(table, key).value + 1].value = value]
    ELSE Append(table, [key |-> key, value |-> value])

LoadedResources_new ==
    [shaders |-> EmptyTable, textures |-> EmptyTable,
     materials |-> EmptyTable, meshes |-> EmptyTable]

-----------------------------------------------------------------------------
(* Entities (entity.rs): the tree is a table of entities, an entity is     *)
(* referred to by its position in the table and the root is entity 1.      *)

RootEntity == 1

\* Entity::new; of the transform the model keeps location.y, in hundredths
Entity_new(name) ==
    [name |-> name, transform |-> [y |-> 0], components |-> << >>, children |-> << >>]

\* Entity::iter
Entity_iter(entity) == << entity >>

\* an iterator that pushes the first child of the popped entity only
EntityIter_next_FirstChild(entities, stk) ==
    IF stk = << >>
    THEN [item |-> None, stack |-> stk]
    ELSE LET entry == stk[Len(stk)]
             entry_children == entities[entry].children
         IN  [item |-> Some(entry),
              stack |-> SubSeq(stk, 1, Len(stk) - 1)
                        \o SubSeq(entry_children, 1, IF entry_children = << >> THEN 0 ELSE 1)]

\* EntityIter::next: pop the last entry of the stack, push its children in
\* their order, yield the entry
EntityIter_next(entities, stk) ==
    IF stk = << >>
    THEN [item |-> None, stack |-> stk]
    ELSE LET entry == stk[Len(stk)]
             entry_children == entities[entry].children
         IN  [item |-> Some(entry),
              stack |-> SubSeq(stk, 1, Len(stk) - 1) \o entry_children]

\* `for entity in &root`: the entities in the order the iterator yields them
RECURSIVE EntitiesFrom(_, _)
EntitiesFrom(entities, stk) ==
    LET step == EntityIter_next(entities, stk)
    IN  IF step.item.some
        THEN << step.item.value >> \o EntitiesFrom(entities, step.stack)
        ELSE << >>

-----------------------------------------------------------------------------
(* Shader construction (shader.rs)                                         *)

ShaderBindingKinds == {"Buffer", "Texture", "StorageTexture"}

\* layout entries of a StorageTexture binding starting at slot `binding`
StorageTextureLayoutEntries(binding) ==
    << [binding |-> binding, ty |-> "StorageTexture"] >>

\* the entries one declared binding contributes, starting at slot `binding`
LayoutEntriesOf(kind, binding) ==
    CASE kind = "Buffer" ->
            << [binding |-> binding, ty |-> "Buffer"] >>
      [] kind = "Texture" ->
            << [binding |-> binding, ty |-> "Texture"],
               [binding |-> binding + 1, ty |-> "Sampler"] >>
      [] kind = "StorageTexture" ->
            StorageTextureLayoutEntries(binding)

RECURSIVE LayoutEntriesFrom(_, _, _)
LayoutEntriesFrom(bindings, i, binding_index) ==
    IF i > Len(bindings) THEN << >>
    ELSE LET entries == LayoutEntriesOf(bindings[i], binding_index)
         IN  entries \o LayoutEntriesFrom(bindings, i + 1, binding_index + Len(entries))

build_bind_group_layout_entries(bindings) == LayoutEntriesFrom(bindings, 1, 0)

RenderPipelineOptions(scene_camera, scene_lighting) ==
    [type |-> "RenderPipeline", scene_camera |-> scene_camera,
     scene_lighting |-> scene_lighting]

ComputePipelineOptions == [type |-> "ComputePipeline"]

PipelineOptions ==
    {RenderPipelineOptions(c, l) : c \in BOOLEAN, l \in BOOLEAN}
        \cup {ComputePipelineOptions}

\* vec![camera_layout, lighting_layout, layout].into_iter().flatten()
PipelineLayoutOf(options) ==
    LET camera_layout ==
            IF options.type = "RenderPipeline" /\ options.scene_camera
            THEN <<"camera">> ELSE << >>
        lighting_layout ==
            IF options.type = "RenderPipeline" /\ options.scene_lighting
            THEN <<"lighting">> ELSE << >>
    IN  camera_layout \o lighting_layout \o <<"own">>

ShaderNew(file, in_shader_bindings, options) ==
    [name |-> file,
     bind_group_layout |-> build_bind_group_layout_entries(in_shader_bindings),
     pipeline |-> options.type,
     pipeline_layout |-> PipelineLayoutOf(options),
     shader_bindings |-> in_shader_bindings,
     includes_camera |->
        IF options.type = "RenderPipeline" THEN options.scene_camera ELSE FALSE,
     includes_lighting |->
        IF options.type = "RenderPipeline" THEN options.scene_lighting ELSE FALSE]

-----------------------------------------------------------------------------
(* Material construction (material.rs)                                     *)

\* a GPU texture is identified by the field or key it was created for and
\* the generation of that field's texture
TextureHandle(name, id) == [name |-> name, id |-> id]

\* Texture::view, Texture::sampler and other views or samplers of a texture
ViewOf(texture) == [texture |-> texture, part |-> "view"]
SamplerOf(texture) == [texture |-> texture, part |-> "sampler"]
StorageViewOf(texture) == [texture |-> texture, part |-> "storage_texture_view"]
ComparisonSamplerOf(texture) == [texture |-> texture, part |-> "comparison_sampler"]

DataBuffer(buffer) == [kind |-> "Buffer", of |-> buffer]
DataTexture(texture) == [kind |-> "Texture", of |-> texture]
DataSampleableDepthTexture(texture, sampler) ==
    [kind |-> "SampleableDepthTexture", of |-> texture, sampler |-> sampler]
DataStorageTexture(texture, view) ==
    [kind |-> "StorageTexture", of |-> texture, view |-> view]
DataTextureName(name) == [kind |-> "TextureName", of |-> name]

MismatchPanic(material_name) ==
    [ok |-> FALSE,
     message |-> "Provided binding data does not match the shader definition",
     names |-> {material_name}]

\* the panic of the Index implementation of IndexMap
KeyNotFoundPanic ==
    [ok |-> FALSE, message |-> "IndexMap: key not found", names |-> {}]

Ok(value) == [ok |-> TRUE, value |-> value]

\* a Buffer arm that takes whatever data binding is at the position
BufferArm_AnyKind(material_name, data_bindings, index, binding) ==
    IF index + 1 > Len(data_bindings) THEN MismatchPanic(material_name)
    ELSE Ok(<< [binding |-> binding,
                resource |-> [kind |-> "Buffer", of |-> data_bindings[index + 1].of]] >>)

\* the closure of the Buffer arm: Some(buffer) only for a Buffer data binding
BufferArm(material_name, data_bindings, index, binding) ==
    IF index + 1 > Len(data_bindings) THEN MismatchPanic(material_name)
    ELSE LET d == data_bindings[index + 1]
         IN  IF d.kind = "Buffer"
             THEN Ok(<< [binding |-> binding,
                         resource |-> [kind |-> "Buffer", of |-> d.of]] >>)
             ELSE MismatchPanic(material_name)

\* the (sampler, texture_view) pair both texture arms draw from a data binding
SamplerAndView(material_name, data_bindings, index, textures) ==
    IF index + 1 > Len(data_bindings) THEN MismatchPanic(material_name)
    ELSE LET d == data_bindings[index + 1]
         IN  CASE d.kind = "Texture" ->
                    Ok([sampler |-> SamplerOf(d.of), view |-> ViewOf(d.of)])
               [] d.kind = "SampleableDepthTexture" ->
                    Ok([sampler |-> d.sampler, view |-> ViewOf(d.of)])
               [] d.kind = "StorageTexture" ->
                    Ok([sampler |-> SamplerOf(d.of),
                        view |-> IF d.view.some THEN d.view.value ELSE ViewOf(d.of)])
               [] d.kind = "TextureName" ->
                    IF contains_key(textures, d.of)
                    THEN Ok([sampler |-> SamplerOf(get(textures, d.of).value),
                             view |-> ViewOf(get(textures, d.of).value)])
                    ELSE KeyNotFoundPanic
               [] d.kind = "Buffer" -> MismatchPanic(material_name)

TextureArm(material_name, data_bindings, index, binding, textures) ==
    LET sv == SamplerAndView(material_name, data_bindings, index, textures)
    IN  IF ~sv.ok THEN sv
        ELSE Ok(<< [binding |-> binding,
                    resource |-> [kind |-> "TextureView", of |-> sv.value.view]],
                   [binding |-> binding + 1,
                    resource |-> [kind |-> "Sampler", of |-> sv.value.sampler]] >>)

StorageTextureArm(material_name, data_bindings, index, binding, textures) ==
    LET sv == SamplerAndView(material_name, data_bindings, index, textures)
    IN  IF ~sv.ok THEN sv
        ELSE Ok(<< [binding |-> binding,
                    resource |-> [kind |-> "TextureView", of |-> sv.value.view]] >>)

\* every arm advancing binding_index by one
SlotsOf_One(kind) == 1

\* binding_index advance of each arm
SlotsOf(kind) ==
    CASE kind = "Buffer" -> 1
      [] kind = "Texture" -> 2
      [] kind = "StorageTexture" -> 1

RECURSIVE EntriesFrom(_, _, _, _, _, _)
EntriesFrom(material_name, bindings, data_bindings, textures, index, binding_index) ==
    IF index + 1 > Len(bindings) THEN Ok(<< >>)
    ELSE LET kind == bindings[index + 1]
             here ==
                CASE kind = "Buffer" ->
                        BufferArm(material_name, data_bindings, index, binding_index)
                  [] kind = "Texture" ->
                        TextureArm(material_name, data_bindings, index, binding_index, textures)
                  [] kind = "StorageTexture" ->
                        StorageTextureArm(material_name, data_bindings, index, binding_index, textures)
         IN  IF ~here.ok THEN here
             ELSE LET rest == EntriesFrom(material_name, bindings, data_bindings, textures,
                                          index + 1, binding_index + SlotsOf(kind))
                  IN  IF ~rest.ok THEN rest ELSE Ok(here.value \o rest.value)

bind_group_entries(material_name, shader, data_bindings, res) ==
    EntriesFrom(material_name, shader.shader_bindings, data_bindings, res.textures, 0, 0)

MaterialNew(material_name, shader_name, data_bindings, res) ==
    IF ~contains_key(res.shaders, shader_name) THEN KeyNotFoundPanic
    ELSE LET shader == get(res.shaders, shader_name).value
             entries == bind_group_entries(material_name, shader, data_bindings, res)
         IN  IF ~entries.ok THEN entries
             ELSE Ok([shader_id |-> get_index_of(res.shaders, shader_name).value,
                      name |-> material_name,
                      bind_group |-> [layout |-> shader.bind_group_layout,
                                      entries |-> entries.value,
                                      label |-> material_name]])

-----------------------------------------------------------------------------
(* Meshes, instances and Model components (mesh.rs, instance.rs)           *)

\* a loaded Mesh: its name, index count and the texture maps it names
Mesh(name, index_count, map_albedo, map_arm, map_normal) ==
    [name |-> name, index_count |-> index_count, map_albedo |-> map_albedo,
     map_arm |-> map_arm, map_normal |-> map_normal]

\* an instance list is kept as its length and the number of times it has
\* been given new contents
InstanceList(len, revision) == [len |-> len, revision |-> revision]

\* Instances::new: the list holds the origin instance, there is no buffer
Instances_new ==
    [instance_list |-> InstanceList(1, 0), instances_buffer |-> None]

\* Instances::update_buffer: a new buffer built from the current list
update_buffer(instances) ==
    [instances EXCEPT !.instances_buffer = Some([built_from |-> instances.instance_list])]

\* a transform that leaves the buffer as it was
transform_single_instance_NoUpdate(instances) ==
    [instances EXCEPT !.instance_list = InstanceList(1, @.revision + 1)]

\* a transform that pushes the instance onto the list
transform_single_instance_Push(instances) ==
    update_buffer([instances EXCEPT !.instance_list =
                        InstanceList(@.len + 1, @.revision + 1)])

\* Instances::transform_single_instance: a list of the one transformed
\* instance, then update_buffer
transform_single_instance(instances) ==
    update_buffer([instances EXCEPT !.instance_list = InstanceList(1, @.revision + 1)])

\* Model::new: nothing resolved yet, one origin instance
Model_new(mesh_name) ==
    [type |-> "Model", mesh_name |-> mesh_name, mesh |-> None,
     voxel_lightmap_material |-> None, scene_deferred_material |-> None,
     instances |-> Instances_new]

\* Model::load: the mesh and the material of each scene pass resolved to
\* their indices in the resource tables
Model_load(model, res) ==
    [model EXCEPT
        !.mesh = get_index_of(res.meshes, model.mesh_name),
        !.voxel_lightmap_material =
            get_index_of(res.materials,
                         "calc_voxel_lightmap_" \o model.mesh_name[2] \o ".material"),
        !.scene_deferred_material =
            get_index_of(res.materials,
                         "scene_deferred_" \o model.mesh_name[2] \o ".material")]

CameraComponent == [type |-> "Camera"]
BehaviorComponent(script) == [type |-> "Behavior", script |-> script]

\* Entity::get_models
get_models(entity) == SelectSeq(entity.components, LAMBDA c : c.type = "Model")

\* Entity::find_descendant: the first child of that name
find_descendant(entities, entity, name) ==
    LET children == entities[entity].children
        found == {k \in 1..Len(children) : entities[children[k]].name = name}
    IN  IF found = {} THEN None
        ELSE Some(children[CHOOSE k \in found : \A l \in found : k <= l])

\* Scene::new: entity_name_paths holds the empty path of the root; no
\* other entry is ever inserted
entity_name_paths == [name \in {"Scene Root"} |-> << >>]

\* index_path.iter().fold(Some(&self.root), ..children.get(*index)): the
\* entity at the end of a path of child indices counted from 0
RECURSIVE FollowPath(_, _, _)
FollowPath(entities, entity, index_path) ==
    IF ~entity.some \/ index_path = << >> THEN entity
    ELSE LET children == entities[entity.value].children
             index == Head(index_path)
         IN  FollowPath(entities,
                        IF index < Len(children) THEN Some(children[index + 1]) ELSE None,
                        Tail(index_path))

\* a lookup that searches the children for every name
find_entity_ChildrenOnly(name_paths, entities, name) ==
    find_descendant(entities, RootEntity, name)

\* Scene::find_entity: the entity at the cached path if there is one,
\* otherwise the search of find_descendant
find_entity(name_paths, entities, name) ==
    LET cached ==
            IF name \in DOMAIN name_paths
            THEN FollowPath(entities, Some(RootEntity), name_paths[name])
            ELSE None
    IN  IF cached.some THEN cached
        ELSE find_descendant(entities, RootEntity, name)

\* Scene::find_entity_mut: the same lookup, ending in find_descendant_mut
find_entity_mut(name_paths, entities, name) ==
    LET cached ==
            IF name \in DOMAIN name_paths
            THEN FollowPath(entities, Some(RootEntity), name_paths[name])
            ELSE None
    IN  IF cached.some THEN cached
        ELSE find_descendant(entities, RootEntity, name)

\* Entity::load_models_on_descendants
load_models_on_descendants(entities, res) ==
    [e \in 1..Len(entities) |->
        [entities[e] EXCEPT !.components =
            [k \in 1..Len(@) |->
                IF @[k].type = "Model" THEN Model_load(@[k], res) ELSE @[k]]]]

\* Behavior::update of a script, on the entity it is handed.
\* LightCubeMovement raises location.y by 0.01; AddsComponent stands for a
\* behavior that pushes a component onto the entity it is handed
Behavior_update(script, entity) ==
    CASE script = "LightCubeMovement" -> [entity EXCEPT !.transform.y = @ + 1]
      [] script = "AddsComponent" ->
            [entity EXCEPT !.components = Append(@, CameraComponent)]
      [] OTHER -> entity

\* `for component in iter_components.iter()`: each Behavior of the detached
\* list is updated on the entity; a call is logged with the component list
\* the entity has when the behavior receives it (`before` is the state
\* at the call, evaluated once)
RECURSIVE RunBehaviors(_, _, _, _)
RunBehaviors(state, e, iter_components, k) ==
    IF k > Len(iter_components) THEN state
    ELSE IF iter_components[k].type # "Behavior"
    THEN RunBehaviors(state, e, iter_components, k + 1)
    ELSE CHOOSE after \in
            {RunBehaviors(
                [entities |-> [before.entities EXCEPT
                                  ![e] = Behavior_update(iter_components[k].script, @)],
                 calls |-> Append(before.calls,
                                  [entity |-> e, component |-> k,
                                   seen |-> before.entities[e].components]),
                 visits |-> before.visits],
                e, iter_components, k + 1) : before \in {state}} : TRUE

RECURSIVE update_behaviors_of_descendants_Attached(_, _)
RECURSIVE update_behaviors_of_descendants_NoReattach(_, _)
RECURSIVE update_behaviors_of_descendants(_, _)

RECURSIVE UpdateChildren_Attached(_, _, _)
UpdateChildren_Attached(state, children, i) ==
    IF i > Len(children) THEN state
    ELSE UpdateChildren_Attached(
            update_behaviors_of_descendants_Attached(state, children[i]), children, i + 1)

RECURSIVE UpdateChildren_NoReattach(_, _, _)
UpdateChildren_NoReattach(state, children, i) ==
    IF i > Len(children) THEN state
    ELSE UpdateChildren_NoReattach(
            update_behaviors_of_descendants_NoReattach(state, children[i]), children, i + 1)

\* `for child in self.children.iter_mut()`
RECURSIVE UpdateChildren(_, _, _)
UpdateChildren(state, children, i) ==
    IF i > Len(children) THEN state
    ELSE UpdateChildren(update_behaviors_of_descendants(state, children[i]),
                        children, i + 1)

\* an update that leaves the component list on the entity while it iterates
update_behaviors_of_descendants_Attached(state, e) ==
    LET iter_components == state.entities[e].components
        ran == RunBehaviors([state EXCEPT !.visits = Append(@, e)], e,
                            iter_components, 1)
    IN  UpdateChildren_Attached(ran, ran.entities[e].children, 1)

\* an update that does not swap the component list back
update_behaviors_of_descendants_NoReattach(state, e) ==
    LET iter_components == state.entities[e].components
        detached == [state EXCEPT !.entities[e].components = << >>,
                                  !.visits = Append(@, e)]
        ran == RunBehaviors(detached, e, iter_components, 1)
    IN  UpdateChildren_NoReattach(ran, ran.entities[e].children, 1)

\* Entity::update_behaviors_of_descendants: the component list is swapped
\* out, its behaviors are updated on the entity, the list is swapped back
\* (what the entity held meanwhile is dropped), then the children in order
update_behaviors_of_descendants(state, e) ==
    CHOOSE after \in
        {LET iter_components == before.entities[e].components
             detached == [before EXCEPT !.entities[e].components = << >>,
                                        !.visits = Append(@, e)]
             ran == RunBehaviors(detached, e, iter_components, 1)
             reattached == [ran EXCEPT !.entities[e].components = iter_components]
         IN  UpdateChildren(reattached, reattached.entities[e].children, 1) :
            before \in {state}} : TRUE

-----------------------------------------------------------------------------
(* Draw dispatch (engine.rs draw_scene, draw_quad and the compute arm of   *)
(* render)                                                                 *)

Panic(message) == [cmd |-> "panic", message |-> message]

SetPipeline(shader) == [cmd |-> "set_pipeline", shader |-> shader.name]

SetBindGroup(index, group, bind_group) ==
    [cmd |-> "set_bind_group", index |-> index, group |-> group,
     bind_group |-> bind_group]

DrawIndexed(index_count, instances) ==
    [cmd |-> "draw_indexed", indices |-> index_count, instances |-> instances]

SetVertexBuffer(slot, buffer) ==
    [cmd |-> "set_vertex_buffer", slot |-> slot, buffer |-> buffer]

SetIndexBuffer(mesh) == [cmd |-> "set_index_buffer", buffer |-> mesh.name]

Dispatch(work_groups_size) == [cmd |-> "dispatch", size |-> work_groups_size]

\* lighting bound ahead of the camera
BindGroups_LightingFirst(shader, material) ==
    LET lighting ==
            IF shader.includes_lighting
            THEN << SetBindGroup(0, "lighting", "light_bind_group") >> ELSE << >>
        index1 == Len(lighting)
        camera ==
            IF shader.includes_camera
            THEN << SetBindGroup(index1, "camera", "camera_bind_group") >> ELSE << >>
        index2 == index1 + Len(camera)
    IN  lighting \o camera \o << SetBindGroup(index2, "material", material.bind_group) >>

\* let mut index = 0; camera, then lighting, then the material
BindGroups(shader, material) ==
    LET camera ==
            IF shader.includes_camera
            THEN << SetBindGroup(0, "camera", "camera_bind_group") >> ELSE << >>
        index1 == Len(camera)
        lighting ==
            IF shader.includes_lighting
            THEN << SetBindGroup(index1, "lighting", "light_bind_group") >> ELSE << >>
        index2 == index1 + Len(lighting)
    IN  camera \o lighting \o << SetBindGroup(index2, "material", material.bind_group) >>

QuadMeshKey == <<"BLIT", "QUAD">>

draw_quad(res, material_name) ==
    IF ~contains_key(res.meshes, QuadMeshKey) \/ ~contains_key(res.materials, material_name)
    THEN << Panic("called Option::unwrap() on a None value") >>
    ELSE LET mesh == get(res.meshes, QuadMeshKey).value
             material == get(res.materials, material_name).value
             shader == at(res.shaders, material.shader_id)
         IN  IF shader.pipeline = "ComputePipeline" THEN << >>
             ELSE << SetPipeline(shader), SetVertexBuffer(0, mesh.name),
                     SetIndexBuffer(mesh) >>
                    \o BindGroups(shader, material)
                    \o << DrawIndexed(mesh.index_count, 1) >>

\* the body of the loop of draw_scene for one Model component
DrawModel(res, model, pass_name) ==
    IF ~model.mesh.some
    THEN << Panic("The mesh is not loaded but is trying to be drawn") >>
    ELSE IF pass_name \notin {"Pass: Calc Voxel Lightmap", "Scene: Deferred"}
    THEN << Panic("Invalid render pass for drawing scene") >>
    ELSE LET maybe_material_index ==
                IF pass_name = "Pass: Calc Voxel Lightmap"
                THEN model.voxel_lightmap_material
                ELSE model.scene_deferred_material
         IN  IF ~maybe_material_index.some
             THEN << Panic("The material for pass is not loaded but is trying to be drawn") >>
             ELSE LET mesh == at(res.meshes, model.mesh.value)
                      material == at(res.materials, maybe_material_index.value)
                      shader == at(res.shaders, material.shader_id)
                      instances_buffer == model.instances.instances_buffer
                      instances_range == model.instances.instance_list.len
                  IN  IF shader.pipeline = "ComputePipeline" THEN << >>
                      ELSE IF ~instances_buffer.some
                      THEN << SetPipeline(shader), SetVertexBuffer(0, mesh.name),
                              Panic("called Option::unwrap() on a None value") >>
                      ELSE << SetPipeline(shader), SetVertexBuffer(0, mesh.name),
                              SetVertexBuffer(1, instances_buffer.value),
                              SetIndexBuffer(mesh) >>
                             \o BindGroups(shader, material)
                             \o << DrawIndexed(mesh.index_count, instances_range) >>

IsPanic(commands) ==
    \E i \in 1..Len(commands) : commands[i].cmd = "panic"

RECURSIVE DrawModelsFrom(_, _, _, _)
DrawModelsFrom(res, models, i, pass_name) ==
    IF i > Len(models) THEN << >>
    ELSE LET here == DrawModel(res, models[i], pass_name)
         IN  IF IsPanic(here) THEN here
             ELSE here \o DrawModelsFrom(res, models, i + 1, pass_name)

\* the Model components of the entities in the given order, each entity's
\* in component order
RECURSIVE ModelsOf(_, _, _)
ModelsOf(entities, order, i) ==
    IF i > Len(order) THEN << >>
    ELSE get_models(entities[order[i]]) \o ModelsOf(entities, order, i + 1)

\* a scene draw that visits the root and its children and no entity below
draw_scene_ChildrenOnly(res, entities, pass_name) ==
    DrawModelsFrom(res,
        ModelsOf(entities, << RootEntity >> \o entities[RootEntity].children, 1),
        1, pass_name)

\* draw_scene: for entity in &root, for component in &entity.components
draw_scene(res, entities, pass_name) ==
    DrawModelsFrom(res,
        ModelsOf(entities, EntitiesFrom(entities, Entity_iter(RootEntity)), 1),
        1, pass_name)

\* a compute arm that skips the compute pipelines instead
compute_pass_Inverted(res, pass) ==
    IF ~contains_key(res.materials, pass.material)
    THEN << Panic("called Option::unwrap() on a None value") >>
    ELSE LET material == get(res.materials, pass.material).value
             shader == at(res.shaders, material.shader_id)
         IN  IF shader.pipeline = "ComputePipeline" THEN << >>
             ELSE << [cmd |-> "begin_compute_pass", label |-> pass.label],
                     SetPipeline(shader),
                     SetBindGroup(0, "material", material.bind_group),
                     Dispatch(pass.work_groups_size),
                     [cmd |-> "end_pass", label |-> pass.label] >>

\* the Pass::ComputePass arm of render; a render pipeline is skipped
compute_pass(res, pass) ==
    IF ~contains_key(res.materials, pass.material)
    THEN << Panic("called Option::unwrap() on a None value") >>
    ELSE LET material == get(res.materials, pass.material).value
             shader == at(res.shaders, material.shader_id)
         IN  IF shader.pipeline = "RenderPipeline" THEN << >>
             ELSE << [cmd |-> "begin_compute_pass", label |-> pass.label],
                     SetPipeline(shader),
                     SetBindGroup(0, "material", material.bind_group),
                     Dispatch(pass.work_groups_size),
                     [cmd |-> "end_pass", label |-> pass.label] >>

-----------------------------------------------------------------------------
(* Shader and material construction applied to drawn arguments             *)

SeqsUpTo(S, n) == UNION {[1..k -> S] : k \in 0..n}

SampleTexture == TextureHandle("sample", 0)

DataChoices ==
    {DataBuffer("buffer"),
     DataTexture(SampleTexture),
     DataSampleableDepthTexture(SampleTexture, ComparisonSamplerOf(SampleTexture)),
     DataStorageTexture(SampleTexture, Some(StorageViewOf(SampleTexture))),
     DataStorageTexture(SampleTexture, None),
     DataTextureName("albedo"),
     DataTextureName("arm")}

\* the texture table holds "albedo" and no "arm"
SampleTextures ==
    insert(EmptyTable, "albedo", TextureHandle("albedo", 0))

SampleMeshes ==
    insert(insert(EmptyTable, QuadMeshKey, Mesh("QUAD", 6, None, None, None)),
           <<"cube.obj", "BeveledCube">>, Mesh("BeveledCube", 36, None, None, None))

Inputs ==
    [file : {"shader.wgsl"},
     bindings : SeqsUpTo(ShaderBindingKinds, MaxBindings),
     options : PipelineOptions,
     material_name : {"m.material"},
     shader_name : {"shader.wgsl", "absent.wgsl"},
     data_bindings : SeqsUpTo(DataChoices, MaxData)]

NoInput == [file |-> "none"]
NoResult == [ok |-> FALSE, message |-> "not constructed", names |-> {}]

\* no handler has run: no Engine::resize call, none repeated
NoCall == [fn |-> "none", resize |-> None, repeated |-> FALSE, error |-> None]

NoLoading == [step |-> "none"]

NoSubmission == [frame |-> 0, textures |-> << >>]

\* engine state that plays no part in construction
EngineUnused ==
    /\ surface_configuration = [width |-> 1, height |-> 1]
    /\ window_size = [width |-> 1, height |-> 1]
    /\ projection = [aspect |-> <<1, 1>>]
    /\ frame_textures = << >>
    /\ next_texture = 0
    /\ pass_index = 0
    /\ encoder = << >>
    /\ submitted = << >>
    /\ contents = << >>
    /\ observed = << >>
    /\ frame = 0
    /\ control_flow = "Poll"
    /\ last_call = NoCall
    /\ scene = << >>
    /\ stack = << >>
    /\ visited = << >>
    /\ loading = NoLoading
    /\ frame_events = << >>
    /\ submitted_in = NoSubmission

MaterialInit ==
    /\ input \in Inputs
    /\ resources = [LoadedResources_new EXCEPT !.textures = SampleTextures,
                                               !.meshes = SampleMeshes]
    /\ result = NoResult
    /\ draw_commands = << >>
    /\ pc = "shader"
    /\ inserts = 0
    /\ EngineUnused

\* Shader::new followed by shaders.insert (engine.rs load_resources)
LoadShader ==
    /\ pc = "shader"
    /\ resources' = [resources EXCEPT !.shaders =
            insert(@, input.file, ShaderNew(input.file, input.bindings, input.options))]
    /\ pc' = "material"
    /\ UNCHANGED <<input, result, draw_commands, inserts>>
    /\ UNCHANGED engineVarsButPc

\* Material::new followed by materials.insert; a panic aborts the load
LoadMaterial ==
    /\ pc = "material"
    /\ LET material == MaterialNew(input.material_name, input.shader_name,
                                   input.data_bindings, resources)
       IN  /\ result' = material
           /\ IF material.ok
              THEN /\ resources' = [resources EXCEPT !.materials =
                            insert(@, input.material_name, material.value)]
                   /\ pc' = "loaded"
              ELSE /\ pc' = "aborted"
                   /\ UNCHANGED resources
    /\ UNCHANGED <<input, draw_commands, inserts>>
    /\ UNCHANGED engineVarsButPc

SampleModel ==
    [Model_new(<<"cube.obj", "BeveledCube">>) EXCEPT
        !.mesh = get_index_of(resources.meshes, <<"cube.obj", "BeveledCube">>),
        !.voxel_lightmap_material = get_index_of(resources.materials, input.material_name),
        !.scene_deferred_material = get_index_of(resources.materials, input.material_name),
        !.instances = update_buffer(@)]

SampleScene ==
    << [Entity_new("Scene Root") EXCEPT !.components = << SampleModel >>] >>

DrawQuad ==
    /\ pc = "loaded"
    /\ draw_commands' = draw_quad(resources, input.material_name)
    /\ pc' = "drawn_quad"
    /\ UNCHANGED <<input, result, resources, inserts>>
    /\ UNCHANGED engineVarsButPc

DrawScene ==
    /\ pc = "loaded"
    /\ draw_commands' = draw_scene(resources, SampleScene, "Scene: Deferred")
    /\ pc' = "drawn_scene"
    /\ UNCHANGED <<input, result, resources, inserts>>
    /\ UNCHANGED engineVarsButPc

ComputeDispatch ==
    /\ pc = "loaded"
    /\ draw_commands' = compute_pass(resources,
            [label |-> "Pass: Compute", material |-> input.material_name,
             work_groups_size |-> <<1, 1, 1>>])
    /\ pc' = "dispatched"
    /\ UNCHANGED <<input, result, resources, inserts>>
    /\ UNCHANGED engineVarsButPc

MaterialNext == LoadShader \/ LoadMaterial \/ DrawQuad \/ DrawScene \/ ComputeDispatch

SpecMaterial == MaterialInit /\ [][MaterialNext]_vars

-----------------------------------------------------------------------------
(* Properties of material construction                                     *)

\* Material::new has run on the drawn arguments
Constructed == pc \in {"loaded", "aborted", "drawn_quad", "drawn_scene", "dispatched"}

ShaderPresent == contains_key(resources.shaders, input.shader_name)

Declared == input.bindings
Supplied == input.data_bindings

\* positions that have both a declared binding and a data binding
SharedPositions == {i \in 1..Len(Declared) : i <= Len(Supplied)}

\* C5: a data-binding list whose length differs from the number of declared
\* bindings, shorter or longer, makes Material construction fail.
C5_LengthMismatchFails ==
    (Constructed /\ ShaderPresent /\ Len(Supplied) # Len(Declared)) => ~result.ok

\* the kinds of data binding the claim lets each declared kind accept
ClaimedAccepted(kind) ==
    CASE kind = "Buffer" -> {"Buffer"}
      [] kind = "Texture" -> {"Texture", "TextureName", "SampleableDepthTexture"}
      [] kind = "StorageTexture" -> {"StorageTexture"}

KindCheckRejects(i) ==
    (Declared[i] = "Buffer") # (Supplied[i].kind = "Buffer")

IsMismatchPanic(r) ==
    ~r.ok /\ r.message = "Provided binding data does not match the shader definition"

ClaimedSlots(kind) == IF kind = "Texture" THEN 2 ELSE 1

RECURSIVE ClaimedSlotsBefore(_, _)
ClaimedSlotsBefore(bindings, i) ==
    IF i <= 1 THEN 0
    ELSE ClaimedSlotsBefore(bindings, i - 1) + ClaimedSlots(bindings[i - 1])

\* C7: a constructed bind group has Buffer + 2 x Texture + StorageTexture
\* entries, numbered 0..k-1 in declaration order with each texture view at
\* its slot s and its sampler at s+1, and the shader's bind-group layout
\* assigns the same binding numbers.
C7_SlotNumbering ==
    (Constructed /\ result.ok) =>
        LET entries == result.value.bind_group.entries
            layout == result.value.bind_group.layout
            k == ClaimedSlotsBefore(Declared, Len(Declared) + 1)
        IN  /\ Len(entries) = k
            /\ Len(layout) = k
            /\ \A j \in 1..k : entries[j].binding = j - 1 /\ layout[j].binding = j - 1
            /\ \A i \in 1..Len(Declared) :
                  LET s == ClaimedSlotsBefore(Declared, i)
                  IN  CASE Declared[i] = "Buffer" ->
                              entries[s + 1].resource.kind = "Buffer"
                        [] Declared[i] = "Texture" ->
                              /\ entries[s + 1].resource.kind = "TextureView"
                              /\ entries[s + 2].resource.kind = "Sampler"
                              /\ layout[s + 1].ty = "Texture"
                              /\ layout[s + 2].ty = "Sampler"
                        [] Declared[i] = "StorageTexture" ->
                              entries[s + 1].resource.kind = "TextureView"

C7_Witness ==
    /\ pc = "loaded"
    /\ result.ok
    /\ Declared = <<"Texture", "Buffer">>
    /\ Len(result.value.bind_group.entries) = 3

\* C8: a TextureName data binding whose name is not in the texture table, or
\* a shader name that is not in the shader table, makes construction fail
\* with a failure that identifies the missing key and the material.
C8_MissingKeyIdentified ==
    Constructed =>
        /\ ~ShaderPresent =>
                /\ ~result.ok
                /\ {input.shader_name, input.material_name} \subseteq result.names
        /\ \A i \in 1..Len(Supplied) :
                (Supplied[i].kind = "TextureName"
                    /\ ~contains_key(resources.textures, Supplied[i].of)) =>
                        /\ ~result.ok
                        /\ {Supplied[i].of, input.material_name} \subseteq result.names

PositionIn(seq, x) == CHOOSE i \in 1..Len(seq) : seq[i] = x

SetBindGroups(commands) ==
    SelectSeq(commands, LAMBDA c : c.cmd = "set_bind_group")

\* the pipeline-layout entry each bound group belongs to
LayoutOfGroup(group) ==
    CASE group = "camera" -> "camera"
      [] group = "lighting" -> "lighting"
      [] group = "material" -> "own"

\* C9: includes_camera and includes_lighting hold what the pipeline options
\* supplied at construction (false for a compute pipeline) and stay so; a
\* draw binds camera (if included), lighting (if included), then the material
\* at index includes_camera + includes_lighting, each at the position of its
\* layout in the pipeline layout; a compute dispatch binds the material at 0.
C9_BindGroupIndices ==
    (pc # "shader") =>
        LET shader == at(resources.shaders, 0)
            render == input.options.type = "RenderPipeline"
            groups == SetBindGroups(draw_commands)
            expected ==
                (IF shader.includes_camera THEN <<"camera">> ELSE << >>)
                \o (IF shader.includes_lighting THEN <<"lighting">> ELSE << >>)
                \o <<"material">>
            material_index ==
                (IF shader.includes_camera THEN 1 ELSE 0)
                + (IF shader.includes_lighting THEN 1 ELSE 0)
        IN  /\ shader.includes_camera = (render /\ input.options.scene_camera)
            /\ shader.includes_lighting = (render /\ input.options.scene_lighting)
            /\ pc \in {"drawn_quad", "drawn_scene"} =>
                  /\ (draw_commands # << >>) = render
                  /\ render =>
                        /\ [j \in 1..Len(groups) |-> groups[j].group] = expected
                        /\ \A j \in 1..Len(groups) :
                              /\ groups[j].index = j - 1
                              /\ groups[j].index =
                                    PositionIn(shader.pipeline_layout,
                                               LayoutOfGroup(groups[j].group)) - 1
                        /\ groups[Len(groups)].index = material_index
            /\ pc = "dispatched" =>
                  /\ (draw_commands # << >>) = ~render
                  /\ ~render =>
                        /\ Len(groups) = 1
                        /\ groups[1].group = "material"
                        /\ groups[1].index = 0
                        /\ PositionIn(shader.pipeline_layout, "own") = 1

C9_Witness ==
    /\ pc = "drawn_scene"
    /\ at(resources.shaders, 0).includes_camera
    /\ at(resources.shaders, 0).includes_lighting
    /\ Len(SetBindGroups(draw_commands)) = 3

-----------------------------------------------------------------------------
(* The resource tables under load-time inserts (engine.rs preload_model_   *)
(* files and load_resources)                                               *)

MaxInserts == 4

ShaderNames == {"scene_deferred.wgsl", "compute_voxel_texture_generating.wgsl"}
TextureNames == {"albedo", "arm"}
MaterialNames == {"scene_deferred_BeveledCube.material", "pass_ssao_kernel.material"}
MeshKeys == {QuadMeshKey, <<"cube.obj", "BeveledCube">>}

ShaderDefinitions ==
    {[bindings |-> <<"Texture">>, options |-> RenderPipelineOptions(TRUE, TRUE)],
     [bindings |-> <<"StorageTexture", "Buffer">>, options |-> ComputePipelineOptions]}

MaterialData ==
    {<< DataTextureName("albedo") >>,
     << DataStorageTexture(SampleTexture, None), DataBuffer("buffer") >>}

TablesUnused ==
    /\ input = NoInput
    /\ draw_commands = << >>

TablesInit ==
    /\ resources = LoadedResources_new
    /\ result = NoResult
    /\ pc = "load"
    /\ inserts = 0
    /\ TablesUnused
    /\ EngineUnused

Inserted(res) ==
    /\ pc = "load"
    /\ inserts < MaxInserts
    /\ resources' = res
    /\ inserts' = inserts + 1
    /\ UNCHANGED <<input, draw_commands, pc>>
    /\ UNCHANGED engineVarsButPc

\* self.scene.resources.meshes.insert(key, mesh)
InsertMesh ==
    \E key \in MeshKeys, index_count \in {6, 36} :
        /\ Inserted([resources EXCEPT !.meshes = insert(@, key, Mesh(key[2], index_count, None, None, None))])
        /\ UNCHANGED result

\* self.scene.resources.shaders.insert(shader.name.clone(), shader)
InsertShader ==
    \E name \in ShaderNames, def \in ShaderDefinitions :
        /\ Inserted([resources EXCEPT !.shaders =
                insert(@, name, ShaderNew(name, def.bindings, def.options))])
        /\ UNCHANGED result

\* self.scene.resources.textures.insert(name, texture)
InsertTexture ==
    \E name \in TextureNames, id \in {0, 1} :
        /\ Inserted([resources EXCEPT !.textures = insert(@, name, TextureHandle(name, id))])
        /\ UNCHANGED result

\* Material::new and self.scene.resources.materials.insert(name, material)
InsertMaterial ==
    \E name \in MaterialNames, shader_name \in ShaderNames, data \in MaterialData :
        LET material == MaterialNew(name, shader_name, data, resources)
        IN  /\ material.ok
            /\ Inserted([resources EXCEPT !.materials = insert(@, name, material.value)])
            /\ result' = material

\* a panic inside Material::new ends the load
MaterialPanics ==
    \E name \in MaterialNames, shader_name \in ShaderNames, data \in MaterialData :
        LET material == MaterialNew(name, shader_name, data, resources)
        IN  /\ pc = "load"
            /\ inserts < MaxInserts
            /\ ~material.ok
            /\ result' = material
            /\ pc' = "aborted"
            /\ UNCHANGED <<resources, input, draw_commands, inserts>>
            /\ UNCHANGED engineVarsButPc

TablesNext == InsertMesh \/ InsertShader \/ InsertTexture \/ InsertMaterial \/ MaterialPanics

SpecTables == TablesInit /\ [][TablesNext]_vars

TableNames == {"shaders", "textures", "materials", "meshes"}

\* C4: an insert into a resource table, of a new key or of a present key,
\* leaves the index of every key already in the table unchanged.
C4_IndexStable ==
    [][\A t \in TableNames : \A k \in Keys(resources[t]) :
            get_index_of(resources'[t], k) = get_index_of(resources[t], k)]_vars

\* three inserts into the shader table alone that left two keys: a new key
\* was appended and a present key was overwritten
C4_Witness ==
    /\ Len(resources.shaders) = 2
    /\ inserts = 3
    /\ resources.textures = EmptyTable
    /\ resources.materials = EmptyTable
    /\ resources.meshes = EmptyTable

-----------------------------------------------------------------------------
(* EntityIter over drawn entity trees (entity.rs)                          *)

MaxEntities == 5

EntityNames == << "Scene Root", "A", "B", "C", "D", "E", "F", "G" >>

RECURSIVE Ascending(_)
Ascending(S) ==
    IF S = {} THEN << >>
    ELSE LET least == CHOOSE x \in S : \A y \in S : x <= y
         IN  << least >> \o Ascending(S \ {least})

\* the tree in which entity i > 1 is a child of entity parent[i], built by
\* new_child calls in the order of the entities
TreeOf(n, parent) ==
    [i \in 1..n |->
        [Entity_new(EntityNames[i]) EXCEPT
            !.children = Ascending({j \in 2..n : parent[j] = i})]]

\* every shape of ordered tree of up to MaxEntities entities, numbered in
\* creation order
EntityTrees ==
    UNION {{TreeOf(n, parent) :
                parent \in {f \in [2..n -> 1..n] : \A j \in 2..n : f[j] < j}}
           : n \in 1..MaxEntities}

EntityUnchanged ==
    /\ UNCHANGED <<resources, input, result, draw_commands, inserts, loading, scene>>
    /\ UNCHANGED frameVars

EntityInit ==
    /\ scene \in EntityTrees
    /\ stack = << >>
    /\ visited = << >>
    /\ pc = "tree"
    /\ resources = LoadedResources_new
    /\ result = NoResult
    /\ inserts = 0
    /\ loading = NoLoading
    /\ TablesUnused
    /\ surface_configuration = [width |-> 1, height |-> 1]
    /\ window_size = [width |-> 1, height |-> 1]
    /\ projection = [aspect |-> <<1, 1>>]
    /\ frame_textures = << >>
    /\ next_texture = 0
    /\ pass_index = 0
    /\ encoder = << >>
    /\ submitted = << >>
    /\ contents = << >>
    /\ observed = << >>
    /\ frame = 0
    /\ control_flow = "Poll"
    /\ last_call = NoCall
    /\ frame_events = << >>
    /\ submitted_in = NoSubmission

\* root.iter()
IterStart ==
    /\ pc = "tree"
    /\ stack' = Entity_iter(RootEntity)
    /\ visited' = << >>
    /\ pc' = "iterating"
    /\ EntityUnchanged

\* one call of next() that yields an entity
IterNext ==
    /\ pc = "iterating"
    /\ LET step == EntityIter_next(scene, stack)
       IN  /\ step.item.some
           /\ visited' = Append(visited, step.item.value)
           /\ stack' = step.stack
    /\ UNCHANGED pc
    /\ EntityUnchanged

\* the call of next() that returns None and ends the loop
IterEnd ==
    /\ pc = "iterating"
    /\ ~EntityIter_next(scene, stack).item.some
    /\ pc' = "done"
    /\ UNCHANGED <<stack, visited>>
    /\ EntityUnchanged

EntityNext == IterStart \/ IterNext \/ IterEnd

SpecEntity == EntityInit /\ [][EntityNext]_vars

\* a `for` loop keeps calling next() until it returns None
SpecEntityLoop == SpecEntity /\ WF_vars(EntityNext)

\* the entities below entity e
RECURSIVE Descendants(_, _)
Descendants(entities, e) ==
    LET children == {entities[e].children[k] : k \in 1..Len(entities[e].children)}
    IN  children \cup UNION {Descendants(entities, c) : c \in children}

YieldedOnce ==
    \A k, l \in 1..Len(visited) : visited[k] = visited[l] => k = l

ParentsFirst ==
    \A k \in 1..Len(visited) :
        \A d \in Descendants(scene, visited[k]) :
            \A l \in 1..Len(visited) : visited[l] = d => k < l

\* C13: on every finite entity tree the iteration from the root ends, has
\* then yielded every entity of the tree, the root included, exactly once,
\* and has yielded every entity before each of its descendants.
C13_PreOrderTraversal ==
    /\ [](pc \in {"iterating", "done"} =>
            /\ YieldedOnce
            /\ ParentsFirst
            /\ {visited[k] : k \in 1..Len(visited)} \subseteq 1..Len(scene))
    /\ [](pc = "done" => {visited[k] : k \in 1..Len(visited)} = 1..Len(scene))
    /\ <>(pc = "done")

\* the tree Root -> [A, B -> [C]] iterated to the end
C13_Witness ==
    /\ pc = "done"
    /\ Len(scene) = 4
    /\ scene[1].children = <<2, 3>>
    /\ scene[3].children = <<4>>
    /\ Len(visited) = 4


-----------------------------------------------------------------------------
(* Behavior updates and lookups on drawn scene trees                       *)

MaxSceneEntities == 3

\* the names the entities below the root are given
ChildNames == {"A", "B", "Scene Root"}

\* the names looked up
LookupNames == ChildNames \cup {"C"}

\* the component lists the entities are given
ComponentLists ==
    {<< >>,
     << BehaviorComponent("LightCubeMovement") >>,
     << CameraComponent, BehaviorComponent("LightCubeMovement"),
        BehaviorComponent("LightCubeMovement") >>,
     << BehaviorComponent("AddsComponent"), BehaviorComponent("AddsComponent") >>}

\* TreeOf with the names and the component lists chosen
NamedTree(n, parent, names, components) ==
    [i \in 1..n |->
        [Entity_new(IF i = RootEntity THEN "Scene Root" ELSE names[i]) EXCEPT
            !.components = components[i],
            !.children = Ascending({j \in 2..n : parent[j] = i})]]

SceneTrees ==
    UNION {{NamedTree(n, parent, names, components) :
                parent \in {f \in [2..n -> 1..n] : \A j \in 2..n : f[j] < j},
                names \in [2..n -> ChildNames],
                components \in [1..n -> ComponentLists]}
           : n \in 1..MaxSceneEntities}

NoUpdateResult == [fn |-> "none", before |-> << >>, calls |-> << >>, visits |-> << >>]

NoLookup == [name |-> "", found |-> None, found_mut |-> None]

SceneInit ==
    /\ scene \in SceneTrees
    /\ stack = << >>
    /\ visited = << >>
    /\ pc = "tree"
    /\ resources = LoadedResources_new
    /\ result = NoUpdateResult
    /\ input = NoLookup
    /\ draw_commands = << >>
    /\ inserts = 0
    /\ loading = NoLoading
    /\ surface_configuration = [width |-> 1, height |-> 1]
    /\ window_size = [width |-> 1, height |-> 1]
    /\ projection = [aspect |-> <<1, 1>>]
    /\ frame_textures = << >>
    /\ next_texture = 0
    /\ pass_index = 0
    /\ encoder = << >>
    /\ submitted = << >>
    /\ contents = << >>
    /\ observed = << >>
    /\ frame = 0
    /\ control_flow = "Poll"
    /\ last_call = NoCall
    /\ frame_events = << >>
    /\ submitted_in = NoSubmission

\* self.scene.root.update_behaviors_of_descendants()
UpdateBehaviors ==
    /\ pc = "tree"
    /\ LET after == update_behaviors_of_descendants(
                        [entities |-> scene, calls |-> << >>, visits |-> << >>],
                        RootEntity)
       IN  /\ scene' = after.entities
           /\ result' = [fn |-> "update_behaviors_of_descendants", before |-> scene,
                         calls |-> after.calls, visits |-> after.visits]
    /\ pc' = "updated"
    /\ UNCHANGED <<resources, input, draw_commands, inserts, frameVars, stack, visited,
                   loading>>

\* `for entity in &self.scene.root`: the entities in the order EntityIter
\* yields them
DrawTraversal ==
    /\ pc = "updated"
    /\ visited' = EntitiesFrom(scene, Entity_iter(RootEntity))
    /\ pc' = "drawn"
    /\ UNCHANGED <<resources, input, result, draw_commands, inserts, frameVars, scene,
                   stack, loading>>

\* find_entity and find_entity_mut of a name
FindEntity ==
    \E name \in LookupNames :
        /\ input' = [name |-> name,
                     found |-> find_entity(entity_name_paths, scene, name),
                     found_mut |-> find_entity_mut(entity_name_paths, scene, name)]
        /\ UNCHANGED <<resources, result, draw_commands, inserts, frameVars, scene,
                       stack, visited, loading, pc>>

SceneNext == UpdateBehaviors \/ DrawTraversal \/ FindEntity

SpecScene == SceneInit /\ [][SceneNext]_vars

-----------------------------------------------------------------------------
(* The engine after Engine::new and Engine::load (engine.rs)               *)

MaxSize == 2
MaxResizes == 2
MaxFrames == 2

Sizes == [width : 0..MaxSize, height : 0..MaxSize]

\* FrameTexture::new
FrameTextureNew(field, id, config, format, label, compare) ==
    [texture |-> TextureHandle(field, id),
     width |-> config.width, height |-> config.height,
     format |-> format, label |-> label, compare |-> compare]

\* a recreate that adds the new size to the size the texture had
recreate_Grow(frame_texture, id, config) ==
    [frame_texture EXCEPT !.texture = TextureHandle(frame_texture.texture.name, id),
                          !.width = frame_texture.width + config.width,
                          !.height = frame_texture.height + config.height]

\* FrameTexture::recreate: a new texture of the same format, label and compare
recreate(frame_texture, id, config) ==
    [frame_texture EXCEPT !.texture = TextureHandle(frame_texture.texture.name, id),
                          !.width = config.width,
                          !.height = config.height]

\* the fields of the engine that FrameTextures::recreate_all recreates
RecreatedFields ==
    {"z_buffer", "world_space_fragment_location", "world_space_normal",
     "albedo_map", "arm_map", "ssao_kernel_map", "ssao_blurred_map"}

recreate_all(textures, id, config) ==
    [field \in DOMAIN textures |->
        IF field \in RecreatedFields
        THEN recreate(textures[field], id, config)
        ELSE textures[field]]

\* the frame textures Engine::new prepares
EngineFrameTextures(config) ==
    [z_buffer |-> FrameTextureNew("z_buffer", 0, config, "Depth32Float",
            "Z-buffer frame texture", Some("LessEqual")),
     world_space_fragment_location |->
        FrameTextureNew("world_space_fragment_location", 0, config, "Rgba16Float",
            "World Space Fragment Location frame texture", None),
     world_space_normal |-> FrameTextureNew("world_space_normal", 0, config,
            "Rgba16Float", "World Space Normal frame texture", None),
     albedo_map |-> FrameTextureNew("albedo_map", 0, config, "Bgra8UnormSrgb",
            "Albedo Map frame texture", None),
     arm_map |-> FrameTextureNew("arm_map", 0, config, "Bgra8Unorm",
            "ARM Map frame texture", None),
     ssao_kernel_map |-> FrameTextureNew("ssao_kernel_map", 0, config, "Rgba16Float",
            "SSAO Kernel Map frame texture", None),
     ssao_blurred_map |-> FrameTextureNew("ssao_blurred_map", 0, config, "Rgba16Float",
            "SSAO Blurred Map frame texture", None),
     pbr_shaded_map |-> FrameTextureNew("pbr_shaded_map", 0, config, "Rgba16Float",
            "PBR Shaded Map frame texture", None)]

FrameTextureFields == DOMAIN EngineFrameTextures([width |-> 1, height |-> 1])

VoxelLightMap == TextureHandle("voxel_light_map", 0)
SurfaceTexture == TextureHandle("surface", 0)
VoxelRenderTarget == "VOXEL_CALCULATION_FRAGMENTS_RENDER_RESOLUTION"

\* width as f32 / height as f32, kept as a fraction in lowest terms
RECURSIVE Gcd(_, _)
Gcd(a, b) == IF b = 0 THEN a ELSE Gcd(b, a % b)

Aspect(width, height) ==
    LET g == Gcd(width, height)
    IN  <<width \div g, height \div g>>

\* PerspectiveProjection::resize
projection_resize(p, width, height) == [p EXCEPT !.aspect = Aspect(width, height)]

\* the shaders of load_resources, in insertion order
EngineShaderDefinitions ==
    << [file |-> "calc_voxel_lightmap.wgsl",
        bindings |-> <<"Buffer", "Texture", "Buffer">>,
        options |-> RenderPipelineOptions(FALSE, TRUE)],
       [file |-> "scene_deferred.wgsl",
        bindings |-> <<"Texture", "Texture", "Texture", "Texture">>,
        options |-> RenderPipelineOptions(TRUE, TRUE)],
       [file |-> "pass_ssao_kernel.wgsl",
        bindings |-> <<"Buffer", "Texture", "Texture", "Texture">>,
        options |-> RenderPipelineOptions(TRUE, FALSE)],
       [file |-> "pass_ssao_blurred.wgsl",
        bindings |-> <<"Texture">>,
        options |-> RenderPipelineOptions(FALSE, FALSE)],
       [file |-> "pass_pbr_shading.wgsl",
        bindings |-> <<"Texture", "Texture", "Texture", "Texture", "Texture">>,
        options |-> RenderPipelineOptions(TRUE, TRUE)],
       [file |-> "compute_voxel_texture_generating.wgsl",
        bindings |-> <<"StorageTexture", "Buffer">>,
        options |-> ComputePipelineOptions],
       [file |-> "pass_hdr_exposure.wgsl",
        bindings |-> <<"Texture">>,
        options |-> RenderPipelineOptions(FALSE, FALSE)] >>

\* let model_files = ["cube.obj", "sponza_pbr.obj"]
ModelFiles == << "cube.obj", "sponza_pbr.obj" >>

NUM_INSTANCES_PER_ROW == 10

\* what the asset files hold: the meshes of the two model files with the
\* texture maps they name
CubeMeshes ==
    << Mesh("BeveledCube", 36, Some("cube_albedo.png"), Some("cube_arm.png"),
            Some("cube_normal.png")) >>

SponzaMeshes ==
    << Mesh("sponza_arch", 12, Some("sponza_albedo.png"), Some("sponza_arm.png"),
            Some("sponza_normal.png")),
       Mesh("sponza_floor", 24, Some("sponza_albedo.png"), Some("sponza_arm.png"),
            Some("sponza_normal.png")) >>

ShaderFiles == {EngineShaderDefinitions[i].file : i \in 1..Len(EngineShaderDefinitions)}

TextureFiles ==
    {"cube_albedo.png", "cube_arm.png", "cube_normal.png",
     "sponza_albedo.png", "sponza_arm.png", "sponza_normal.png"}

\* the orders in which iterating the model_files HashMap can yield its keys
HashOrders == { << "cube.obj", "sponza_pbr.obj" >>, << "sponza_pbr.obj", "cube.obj" >> }

\* an assets directory in which every file is present and well formed
GoodAssets(hash_order) ==
    [models |-> ("cube.obj" :> Some(CubeMeshes)) @@ ("sponza_pbr.obj" :> Some(SponzaMeshes)),
     shaders |-> ShaderFiles,
     textures |-> TextureFiles,
     hash_order |-> hash_order]

\* Mesh::load: the meshes of the file, or an error
Mesh_load(assets, file) == assets.models[file]

RECURSIVE InsertMeshesFrom(_, _, _, _)
InsertMeshesFrom(res, file, meshes, i) ==
    IF i > Len(meshes) THEN res
    ELSE InsertMeshesFrom(
            [res EXCEPT !.meshes = insert(@, <<file, meshes[i].name>>, meshes[i])],
            file, meshes, i + 1)

\* Mesh::load(..).unwrap_or_default()
MeshesOrDefault(assets, file) ==
    IF Mesh_load(assets, file).some THEN Mesh_load(assets, file).value ELSE << >>

RECURSIVE PreloadFrom(_, _, _)
PreloadFrom(res, assets, i) ==
    IF i > Len(ModelFiles) THEN res
    ELSE PreloadFrom(
            InsertMeshesFrom(res, ModelFiles[i], MeshesOrDefault(assets, ModelFiles[i]), 1),
            assets, i + 1)

\* preload_model_files: the meshes of every model file inserted, and the
\* map from model file to the names of its meshes
preload_model_files(res, assets) ==
    [resources |-> PreloadFrom(res, assets, 1),
     model_meshes |->
        [file \in {ModelFiles[i] : i \in 1..Len(ModelFiles)} |->
            LET meshes == MeshesOrDefault(assets, file)
            IN  [k \in 1..Len(meshes) |-> meshes[k].name]]]

\* build_scene: the cameras, the lamp, the array of cubes and one entity
\* below Sponza for each mesh of sponza_pbr.obj
build_scene(model_meshes) ==
    LET sponza_names == model_meshes["sponza_pbr.obj"]
        lamp_model ==
            [Model_new(<<"cube.obj", "BeveledCube">>) EXCEPT !.instances =
                update_buffer([@ EXCEPT !.instance_list =
                                    InstanceList(1, @.revision + 1)])]
        cube_model ==
            [Model_new(<<"cube.obj", "BeveledCube">>) EXCEPT !.instances =
                update_buffer([@ EXCEPT !.instance_list =
                    InstanceList(NUM_INSTANCES_PER_ROW * NUM_INSTANCES_PER_ROW,
                                 @.revision + 1)])]
        submesh_model(mesh_name) ==
            [Model_new(<<"sponza_pbr.obj", mesh_name>>) EXCEPT
                !.instances = update_buffer(@)]
    IN  << [Entity_new("Scene Root") EXCEPT !.children = <<2, 3, 4, 5, 6>>],
           [Entity_new("Main Camera") EXCEPT !.components = << CameraComponent >>],
           [Entity_new("Voxel Camera") EXCEPT !.components = << CameraComponent >>],
           [Entity_new("Lamp Model") EXCEPT !.components =
                << lamp_model, BehaviorComponent("LightCubeMovement") >>],
           [Entity_new("Cubes") EXCEPT !.components = << cube_model >>],
           [Entity_new("Sponza") EXCEPT !.children =
                [k \in 1..Len(sponza_names) |-> 6 + k]] >>
        \o [k \in 1..Len(sponza_names) |->
                [Entity_new(sponza_names[k]) EXCEPT !.components =
                    << submesh_model(sponza_names[k]) >>]]

\* vec![..].into_iter().flatten(): the values of the options that are Some
RECURSIVE Flatten(_)
Flatten(options) ==
    IF options = << >> THEN << >>
    ELSE (IF Head(options).some THEN << Head(options).value >> ELSE << >>)
         \o Flatten(Tail(options))

\* the two materials load_resources prepares for a mesh
MaterialsOfMesh(mesh) ==
    << [name |-> "scene_deferred_" \o mesh.name \o ".material",
        shader |-> "scene_deferred.wgsl",
        data |-> Flatten(<< mesh.map_albedo, mesh.map_arm, mesh.map_normal,
                            Some("VOXEL_LIGHTMAP_TEXTURE") >>)],
       [name |-> "calc_voxel_lightmap_" \o mesh.name \o ".material",
        shader |-> "calc_voxel_lightmap.wgsl",
        data |-> Flatten(<< Some("VOXEL_CAMERA_MATRICES"), mesh.map_albedo,
                            Some("VOXEL_LIGHTMAP") >>)] >>

\* model_files.iter().map(|_| meshes.get(key)).flatten(): the mesh of the
\* key once for every entry of model_files
MeshCopies(res, key, copies) ==
    LET found == get(res.meshes, key)
    IN  [k \in 1..(IF found.some THEN copies ELSE 0) |-> found.value]

RECURSIVE ConcatAll(_)
ConcatAll(seqs) ==
    IF seqs = << >> THEN << >> ELSE Head(seqs) \o ConcatAll(Tail(seqs))

\* the meshes the loops of load_resources visit, in the order they visit them
MeshesVisited(res, model_meshes, hash_order) ==
    ConcatAll([f \in 1..Len(hash_order) |->
        ConcatAll([n \in 1..Len(model_meshes[hash_order[f]]) |->
            MeshCopies(res, <<hash_order[f], model_meshes[hash_order[f]][n]>>,
                       Len(hash_order))])])

\* materials_to_load after the loops
materials_to_load(res, model_meshes, hash_order) ==
    LET meshes == MeshesVisited(res, model_meshes, hash_order)
    IN  ConcatAll([k \in 1..Len(meshes) |-> MaterialsOfMesh(meshes[k])])

RECURSIVE WithoutRepeats(_)
WithoutRepeats(seq) ==
    IF seq = << >> THEN << >>
    ELSE LET rest == WithoutRepeats(SubSeq(seq, 1, Len(seq) - 1))
             last == seq[Len(seq)]
         IN  IF \E k \in 1..Len(rest) : rest[k] = last THEN rest ELSE Append(rest, last)

\* textures_to_load after the loops, a set; it is iterated in the order in
\* which the textures were first marked
textures_to_load(res, model_meshes, hash_order) ==
    LET meshes == MeshesVisited(res, model_meshes, hash_order)
    IN  WithoutRepeats(ConcatAll([k \in 1..Len(meshes) |->
            Flatten(<< meshes[k].map_albedo, meshes[k].map_arm,
                       meshes[k].map_normal >>)]))

\* the match of combined_materials on a texture path
ToDataBinding(texture_path) ==
    CASE texture_path = "VOXEL_LIGHTMAP" -> DataBuffer("voxel_storage_buffer")
      [] texture_path = "VOXEL_LIGHTMAP_TEXTURE" -> DataTexture(VoxelLightMap)
      [] texture_path = "VOXEL_CAMERA_MATRICES" ->
            DataBuffer("voxel_camera_x.camera_buffer")
      [] OTHER -> DataTextureName(texture_path)

\* the material_definitions array
material_definitions(ft) ==
    << [name |-> "pass_ssao_kernel.material",
        shader |-> "pass_ssao_kernel.wgsl",
        data |-> << DataBuffer("ssao_samples_buffer"),
                    DataTextureName("SSAO_NOISE"),
                    DataTexture(ft.world_space_fragment_location.texture),
                    DataTexture(ft.world_space_normal.texture) >>],
       [name |-> "pass_ssao_blurred.material",
        shader |-> "pass_ssao_blurred.wgsl",
        data |-> << DataTexture(ft.ssao_kernel_map.texture) >>],
       [name |-> "pass_pbr_shading.material",
        shader |-> "pass_pbr_shading.wgsl",
        data |-> << DataTexture(ft.world_space_fragment_location.texture),
                    DataTexture(ft.world_space_normal.texture),
                    DataTexture(ft.albedo_map.texture),
                    DataTexture(ft.arm_map.texture),
                    DataTexture(ft.ssao_blurred_map.texture) >>],
       [name |-> "compute_voxel_texture_generating.material",
        shader |-> "compute_voxel_texture_generating.wgsl",
        data |-> << DataStorageTexture(VoxelLightMap, Some(StorageViewOf(VoxelLightMap))),
                    DataBuffer("voxel_storage_buffer") >>],
       [name |-> "pass_hdr_exposure.material",
        shader |-> "pass_hdr_exposure.wgsl",
        data |-> << DataTexture(ft.pbr_shaded_map.texture) >>] >>

\* combined_materials: materials_to_load with its paths mapped to data
\* bindings, chained with material_definitions
combined_materials(res, model_meshes, hash_order, ft) ==
    LET to_load == materials_to_load(res, model_meshes, hash_order)
    IN  [k \in 1..Len(to_load) |->
            [name |-> to_load[k].name, shader |-> to_load[k].shader,
             data |-> [d \in 1..Len(to_load[k].data) |->
                            ToDataBinding(to_load[k].data[d])]]]
        \o material_definitions(ft)

RECURSIVE InsertShadersFrom(_, _, _)
InsertShadersFrom(res, defs, i) ==
    IF i > Len(defs) THEN res
    ELSE InsertShadersFrom(
            [res EXCEPT !.shaders =
                insert(@, defs[i].file, ShaderNew(defs[i].file, defs[i].bindings, defs[i].options))],
            defs, i + 1)

RECURSIVE InsertTexturesFrom(_, _, _)
InsertTexturesFrom(res, names, i) ==
    IF i > Len(names) THEN res
    ELSE InsertTexturesFrom(
            [res EXCEPT !.textures = insert(@, names[i], TextureHandle(names[i], 0))],
            names, i + 1)

\* for material_definition in combined_materials { Material::new; insert };
\* a panic of Material::new ends the loop and the load
RECURSIVE InsertMaterialsFrom(_, _, _)
InsertMaterialsFrom(res, defs, i) ==
    IF i > Len(defs) THEN Ok(res)
    ELSE LET material == MaterialNew(defs[i].name, defs[i].shader, defs[i].data, res)
         IN  IF ~material.ok THEN material
             ELSE InsertMaterialsFrom(
                    [res EXCEPT !.materials = insert(@, defs[i].name, material.value)],
                    defs, i + 1)

\* load_resources up to the shaders: the blit quad inserted
InsertBlitQuad(res) ==
    [res EXCEPT !.meshes = insert(@, QuadMeshKey, Mesh("QUAD", 6, None, None, None))]

\* read_to_string(shader_path).unwrap() of Shader::new
ShaderFileMissing ==
    [ok |-> FALSE, message |-> "called Result::unwrap() on an Err value", names |-> {}]

\* the shaders of load_resources: Shader::new panics on a file it cannot read
LoadShaders(res, assets) ==
    IF \E i \in 1..Len(EngineShaderDefinitions) :
            EngineShaderDefinitions[i].file \notin assets.shaders
    THEN ShaderFileMissing
    ELSE Ok(InsertShadersFrom(res, EngineShaderDefinitions, 1))

\* the textures of load_resources: Texture::load(..).unwrap() panics on a
\* file it cannot load
LoadTextures(res, assets, to_load) ==
    IF \E k \in 1..Len(to_load) : to_load[k] \notin assets.textures
    THEN [ok |-> FALSE, message |-> "called Result::unwrap() on an Err value",
          names |-> {}]
    ELSE Ok(InsertTexturesFrom(res, << "SSAO_NOISE", VoxelRenderTarget >> \o to_load, 1))

\* load_resources: the resource tables it leaves, or the panic that ends it
load_resources(res, assets, model_meshes, ft) ==
    LET meshes == InsertBlitQuad(res)
        shaders == LoadShaders(meshes, assets)
    IN  IF ~shaders.ok THEN shaders
        ELSE LET textures ==
                    LoadTextures(shaders.value, assets,
                        textures_to_load(meshes, model_meshes, assets.hash_order))
             IN  IF ~textures.ok THEN textures
                 ELSE InsertMaterialsFrom(textures.value,
                        combined_materials(meshes, model_meshes, assets.hash_order, ft), 1)

\* Engine::load: preload_model_files, build_scene, load_resources and
\* load_models_on_descendants
Engine_load(assets, ft) ==
    LET preloaded == preload_model_files(LoadedResources_new, assets)
        built == build_scene(preloaded.model_meshes)
        loaded == load_resources(preloaded.resources, assets, preloaded.model_meshes, ft)
    IN  IF ~loaded.ok THEN loaded
        ELSE Ok([resources |-> loaded.value,
                 scene |-> load_models_on_descendants(built, loaded.value)])

\* Engine::update: the lamp's models get their one instance transformed
update(entities) ==
    LET lamp_model == find_entity_mut(entity_name_paths, entities, "Lamp Model").value
        transformed ==
            [entities EXCEPT ![lamp_model].components =
                [k \in 1..Len(@) |->
                    IF @[k].type = "Model"
                    THEN [@[k] EXCEPT !.instances = transform_single_instance(@)]
                    ELSE @[k]]]
    IN  update_behaviors_of_descendants(
            [entities |-> transformed, calls |-> << >>, visits |-> << >>],
            RootEntity).entities

RenderPass(label, depth_attachment, color_attachment_types, blit_material) ==
    [type |-> "RenderPass", label |-> label, depth_attachment |-> depth_attachment,
     color_attachment_types |-> color_attachment_types,
     blit_material |-> blit_material]

ComputePass(label, material, work_groups_size) ==
    [type |-> "ComputePass", label |-> label, material |-> material,
     work_groups_size |-> work_groups_size]

\* a pass list with the SSAO blur ahead of the SSAO kernel it reads
Passes_BlurBeforeKernel(ft, res) ==
    LET voxel_target == ViewOf(get(res.textures, VoxelRenderTarget).value)
    IN  << RenderPass("Pass: Calc Voxel Lightmap", None, << voxel_target >>, None),
           RenderPass("Pass: Calc Voxel Lightmap", None, << voxel_target >>, None),
           RenderPass("Pass: Calc Voxel Lightmap", None, << voxel_target >>, None),
           ComputePass("Pass: Voxel Texture Generating",
                       "compute_voxel_texture_generating.material", <<128, 128, 128>>),
           RenderPass("Scene: Deferred", Some(ViewOf(ft.z_buffer.texture)),
                      << ViewOf(ft.world_space_fragment_location.texture),
                         ViewOf(ft.world_space_normal.texture),
                         ViewOf(ft.albedo_map.texture),
                         ViewOf(ft.arm_map.texture) >>, None),
           RenderPass("Pass: SSAO Blurred", None,
                      << ViewOf(ft.ssao_blurred_map.texture) >>,
                      Some("pass_ssao_blurred.material")),
           RenderPass("Pass: SSAO Kernel", None,
                      << ViewOf(ft.ssao_kernel_map.texture) >>,
                      Some("pass_ssao_kernel.material")),
           RenderPass("Pass: PBR Shading", None,
                      << ViewOf(ft.pbr_shaded_map.texture) >>,
                      Some("pass_pbr_shading.material")),
           RenderPass("Pass: HDR Exposure", None,
                      << ViewOf(SurfaceTexture) >>,
                      Some("pass_hdr_exposure.material")) >>

\* let passes = vec![...] of render, resolved against the current state
Passes(ft, res) ==
    LET voxel_target == ViewOf(get(res.textures, VoxelRenderTarget).value)
    IN  << RenderPass("Pass: Calc Voxel Lightmap", None, << voxel_target >>, None),
           RenderPass("Pass: Calc Voxel Lightmap", None, << voxel_target >>, None),
           RenderPass("Pass: Calc Voxel Lightmap", None, << voxel_target >>, None),
           ComputePass("Pass: Voxel Texture Generating",
                       "compute_voxel_texture_generating.material", <<128, 128, 128>>),
           RenderPass("Scene: Deferred", Some(ViewOf(ft.z_buffer.texture)),
                      << ViewOf(ft.world_space_fragment_location.texture),
                         ViewOf(ft.world_space_normal.texture),
                         ViewOf(ft.albedo_map.texture),
                         ViewOf(ft.arm_map.texture) >>, None),
           RenderPass("Pass: SSAO Kernel", None,
                      << ViewOf(ft.ssao_kernel_map.texture) >>,
                      Some("pass_ssao_kernel.material")),
           RenderPass("Pass: SSAO Blurred", None,
                      << ViewOf(ft.ssao_blurred_map.texture) >>,
                      Some("pass_ssao_blurred.material")),
           RenderPass("Pass: PBR Shading", None,
                      << ViewOf(ft.pbr_shaded_map.texture) >>,
                      Some("pass_pbr_shading.material")),
           RenderPass("Pass: HDR Exposure", None,
                      << ViewOf(SurfaceTexture) >>,
                      Some("pass_hdr_exposure.material")) >>

\* a render pass that draws the scene whatever its blit material
render_pass_AlwaysScene(res, entities, pass) ==
    << [cmd |-> "begin_render_pass", label |-> pass.label,
        color_attachments |-> pass.color_attachment_types,
        depth_stencil_attachment |-> pass.depth_attachment] >>
    \o draw_scene(res, entities, pass.label)
    \o << [cmd |-> "end_pass", label |-> pass.label] >>

\* the Pass::RenderPass arm of render: begin the pass, draw the scene or the
\* quad; the pass ends when the draw function drops it
render_pass(res, entities, pass) ==
    << [cmd |-> "begin_render_pass", label |-> pass.label,
        color_attachments |-> pass.color_attachment_types,
        depth_stencil_attachment |-> pass.depth_attachment] >>
    \o (IF pass.label = "Pass: Calc Voxel Lightmap"
        THEN draw_scene(res, entities, pass.label)
        ELSE IF ~pass.blit_material.some
             THEN draw_scene(res, entities, pass.label)
             ELSE draw_quad(res, pass.blit_material.value))
    \o << [cmd |-> "end_pass", label |-> pass.label] >>

\* one iteration of `for pass in passes`
PassCommands(res, entities, pass) ==
    IF pass.type = "RenderPass"
    THEN render_pass(res, entities, pass)
    ELSE compute_pass(res, pass)

\* the textures a pass writes: its colour and depth attachments
AttachmentTextures(pass) ==
    IF pass.type = "RenderPass"
    THEN {pass.color_attachment_types[i].texture :
                i \in 1..Len(pass.color_attachment_types)}
         \cup (IF pass.depth_attachment.some
               THEN {pass.depth_attachment.value.texture} ELSE {})
    ELSE {}

\* the textures the bind groups of a command list sample
SampledTextures(commands) ==
    UNION {
        IF commands[i].cmd = "set_bind_group" /\ commands[i].group = "material"
        THEN {commands[i].bind_group.entries[j].resource.of.texture :
                j \in {k \in 1..Len(commands[i].bind_group.entries) :
                        commands[i].bind_group.entries[k].resource.kind = "TextureView"}}
        ELSE {}
        : i \in 1..Len(commands)}

Unwritten == [frame |-> 0, pass |-> 0]

\* every texture of the engine, none written yet
InitialContents(ft, res) ==
    [t \in {ft[f].texture : f \in DOMAIN ft}
           \cup {res.textures[i].value : i \in 1..Len(res.textures)}
           \cup {VoxelLightMap, SurfaceTexture} |-> Unwritten]

EngineInit ==
    /\ window_size \in {size \in Sizes : size.width > 0 /\ size.height > 0}
    /\ surface_configuration = window_size
    /\ projection = [aspect |-> Aspect(window_size.width, window_size.height)]
    /\ frame_textures = EngineFrameTextures(surface_configuration)
    /\ loading = [step |-> "loaded", assets |-> GoodAssets(ModelFiles)]
    /\ resources = Engine_load(loading.assets, frame_textures).value.resources
    /\ scene = Engine_load(loading.assets, frame_textures).value.scene
    /\ next_texture = 1
    /\ contents = InitialContents(frame_textures, resources)
    /\ pc = "idle"
    /\ pass_index = 0
    /\ encoder = << >>
    /\ submitted = << >>
    /\ observed = << >>
    /\ frame = 0
    /\ control_flow = "Poll"
    /\ last_call = NoCall
    /\ inserts = 0
    /\ input = NoInput
    /\ result = NoResult
    /\ draw_commands = << >>
    /\ stack = << >>
    /\ visited = << >>
    /\ frame_events = << >>
    /\ submitted_in = NoSubmission

\* a resize that tests the width alone
resize_WidthOnly(new_size) ==
    IF new_size.width > 0
    THEN LET config == [surface_configuration EXCEPT !.width = new_size.width,
                                                      !.height = new_size.height]
         IN  [surface_configuration |-> config,
              projection |-> projection_resize(projection, new_size.width, new_size.height),
              frame_textures |-> recreate_all(frame_textures, next_texture, config),
              next_texture |-> next_texture + 1]
    ELSE [surface_configuration |-> surface_configuration,
          projection |-> projection,
          frame_textures |-> frame_textures,
          next_texture |-> next_texture]

\* Engine::resize: the new surface size, projection and frame textures
resize(new_size) ==
    IF new_size.width > 0 /\ new_size.height > 0
    THEN LET config == [surface_configuration EXCEPT !.width = new_size.width,
                                                      !.height = new_size.height]
         IN  [surface_configuration |-> config,
              projection |-> projection_resize(projection, new_size.width, new_size.height),
              frame_textures |-> recreate_all(frame_textures, next_texture, config),
              next_texture |-> next_texture + 1]
    ELSE [surface_configuration |-> surface_configuration,
          projection |-> projection,
          frame_textures |-> frame_textures,
          next_texture |-> next_texture]

\* the state change of a call of Engine::resize
Resized(new_size) ==
    LET after == resize(new_size)
    IN  /\ surface_configuration' = after.surface_configuration
        /\ projection' = after.projection
        /\ frame_textures' = after.frame_textures
        /\ next_texture' = after.next_texture
        /\ contents' = [t \in DOMAIN contents
                            \cup {after.frame_textures[f].texture : f \in DOMAIN frame_textures}
                        |-> IF t \in DOMAIN contents THEN contents[t] ELSE Unwritten]

CanResize(new_size) ==
    new_size.width = 0 \/ new_size.height = 0 \/ next_texture <= MaxResizes

\* process_window_event: WindowEvent::Resized or ScaleFactorChanged
WindowResized ==
    \E new_size \in Sizes :
        /\ pc = "idle"
        /\ control_flow = "Poll"
        /\ CanResize(new_size)
        /\ window_size' = new_size
        /\ Resized(new_size)
        /\ last_call' = [fn |-> "process_window_event", resize |-> Some(new_size),
                        repeated |-> last_call.resize = Some(new_size),
                        error |-> None]
        /\ UNCHANGED <<resources, input, result, draw_commands, pc, pass_index,
                       encoder, submitted, observed, frame, control_flow, inserts,
                       scene, stack, visited, loading, frame_events,
                       submitted_in>>

\* every control flow ends the frame loop
ControlFlowAfter_AlwaysExit(error, flow) ==
    IF error \in {"OutOfMemory", "Lost", "Outdated", "Timeout"} THEN "Exit" ELSE flow

\* the match of draw_frame on the error of render: OutOfMemory sets
\* ControlFlow::Exit, the other errors leave the control flow alone
ControlFlowAfter(error, flow) ==
    IF error = "OutOfMemory" THEN "Exit" ELSE flow

\* draw_frame when get_current_texture fails: update has run, render
\* returns the error before the encoder is created, draw_frame matches on it
FrameFails ==
    \E error \in {"Lost", "OutOfMemory", "Outdated", "Timeout"} :
        /\ pc = "idle"
        /\ control_flow = "Poll"
        /\ frame < MaxFrames
        /\ frame' = frame + 1
        /\ scene' = update(scene)
        /\ frame_events' = << "get_current_texture failed" >>
        /\ control_flow' = ControlFlowAfter(error, control_flow)
        /\ IF error = "Lost"
           THEN /\ CanResize(window_size)
                /\ Resized(window_size)
                /\ last_call' = [fn |-> "draw_frame", resize |-> Some(window_size),
                                repeated |-> last_call.resize = Some(window_size),
                                error |-> Some(error)]
           ELSE /\ last_call' = [fn |-> "draw_frame", resize |-> None,
                                repeated |-> FALSE, error |-> Some(error)]
                /\ UNCHANGED <<surface_configuration, projection, frame_textures,
                               next_texture, contents>>
        /\ UNCHANGED <<resources, input, result, draw_commands, window_size, pc,
                       pass_index, encoder, submitted, observed, inserts,
                       stack, visited, loading, submitted_in>>

\* draw_frame when get_current_texture succeeds: update has run, render
\* creates the encoder and builds the pass list
FrameBegins ==
    /\ pc = "idle"
    /\ control_flow = "Poll"
    /\ frame < MaxFrames
    /\ frame' = frame + 1
    /\ pc' = "passes"
    /\ pass_index' = 1
    /\ encoder' = << >>
    /\ observed' = << >>
    /\ frame_events' = << "get_current_texture" >>
    /\ last_call' = [fn |-> "draw_frame", resize |-> None, repeated |-> FALSE,
                     error |-> None]
    /\ scene' = update(scene)
    /\ UNCHANGED <<resources, input, result, draw_commands, surface_configuration,
                   window_size, projection, frame_textures, next_texture, submitted,
                   contents, control_flow, inserts, stack, visited, loading, submitted_in>>

\* a loop over the passes that ends one pass early
LoopDone_Early(index, passes) == index >= Len(passes)

\* `for pass in passes` has run out of passes
LoopDone(index, passes) == index > Len(passes)

Tagged(commands, index) ==
    [i \in 1..Len(commands) |-> [pass |-> index, command |-> commands[i]]]

\* render: the body of `for pass in passes` for the pass at pass_index
ExecutePass ==
    LET passes == Passes(frame_textures, resources)
    IN  /\ pc = "passes"
        /\ ~LoopDone(pass_index, passes)
        /\ LET pass == passes[pass_index]
               commands == PassCommands(resources, scene, pass)
               sampled == SampledTextures(commands)
           IN  /\ encoder' = encoder \o Tagged(commands, pass_index)
               /\ observed' = Append(observed, [t \in sampled |-> contents[t]])
               /\ contents' = [t \in DOMAIN contents |->
                                IF t \in AttachmentTextures(pass)
                                THEN [frame |-> frame, pass |-> pass_index]
                                ELSE contents[t]]
        /\ pass_index' = pass_index + 1
        /\ UNCHANGED <<resources, input, result, draw_commands, surface_configuration,
                       window_size, projection, frame_textures, next_texture, pc,
                       submitted, frame, control_flow, last_call, inserts,
                       scene, stack, visited, loading, frame_events,
                       submitted_in>>

\* render: self.context.queue.submit(iter::once(encoder.finish())) once the
\* loop over the passes has ended
Submit ==
    /\ pc = "passes"
    /\ LoopDone(pass_index, Passes(frame_textures, resources))
    /\ submitted' = encoder
    /\ frame_events' = Append(frame_events, "submit")
    /\ submitted_in' = [frame |-> frame, textures |-> frame_textures]
    /\ pc' = "present"
    /\ UNCHANGED <<resources, input, result, draw_commands, surface_configuration,
                   window_size, projection, frame_textures, next_texture, pass_index,
                   encoder, contents, observed, frame, control_flow, last_call, inserts,
                   scene, stack, visited, loading>>

\* render: surface_texture.present(); render returns Ok and draw_frame ends
Present ==
    /\ pc = "present"
    /\ frame_events' = Append(frame_events, "present")
    /\ pc' = "idle"
    /\ UNCHANGED <<resources, input, result, draw_commands, surface_configuration,
                   window_size, projection, frame_textures, next_texture, pass_index,
                   encoder, submitted, contents, observed, frame, control_flow,
                   last_call, inserts, scene, stack, visited, loading, submitted_in>>

EngineNext ==
    WindowResized \/ FrameFails \/ FrameBegins \/ ExecutePass \/ Submit \/ Present

SpecEngine == EngineInit /\ [][EngineNext]_vars

-----------------------------------------------------------------------------
(* Properties of the frame loop                                            *)

EnginePasses == Passes(frame_textures, resources)

PassesOf(commands) == {commands[k].pass : k \in 1..Len(commands)}

PositionsOf(commands, i) == {k \in 1..Len(commands) : commands[k].pass = i}

BeginOf(pass) ==
    IF pass.type = "RenderPass" THEN "begin_render_pass" ELSE "begin_compute_pass"

\* the commands are those of passes 1..done, each pass once and in list
\* order: its begin, its draw or dispatch commands, its end, and only then
\* the next pass
InListOrder(commands, done) ==
    /\ PassesOf(commands) = 1..done
    /\ \A k \in 1..(Len(commands) - 1) : commands[k].pass <= commands[k + 1].pass
    /\ \A i \in 1..done :
          LET at_i == PositionsOf(commands, i)
              first == CHOOSE k \in at_i : \A l \in at_i : k <= l
              last == CHOOSE k \in at_i : \A l \in at_i : l <= k
          IN  /\ commands[first].command.cmd = BeginOf(EnginePasses[i])
              /\ commands[first].command.label = EnginePasses[i].label
              /\ commands[last].command.cmd = "end_pass"
              /\ \A k \in at_i \ {first} :
                    commands[k].command.cmd \notin {"begin_render_pass", "begin_compute_pass"}
              /\ \A k \in at_i \ {last} : commands[k].command.cmd # "end_pass"
              /\ \E k \in at_i : commands[k].command.cmd \in {"draw_indexed", "dispatch"}

FrameSubmitted == pc = "idle" /\ submitted # << >>

\* C1: within a frame render executes the passes of its list strictly in
\* list order, each begun, drawn or dispatched and ended before the next
\* begins, none skipped, repeated or reordered.
C1_PassesInListOrder ==
    /\ pc = "passes" => InListOrder(encoder, pass_index - 1)
    /\ FrameSubmitted => InListOrder(submitted, Len(EnginePasses))

C1_Witness ==
    /\ FrameSubmitted
    /\ frame = 2
    /\ \E k \in 1..Len(submitted) : submitted[k].command.cmd = "dispatch"

\* the material a blit pass draws its quad with
BlitMaterial(pass) == get(resources.materials, pass.blit_material.value).value

\* the frame-texture fields whose texture a material was built to sample
FieldsSampledBy(material) ==
    {material.bind_group.entries[j].resource.of.texture.name :
        j \in {k \in 1..Len(material.bind_group.entries) :
                material.bind_group.entries[k].resource.kind = "TextureView"}}
    \cap FrameTextureFields

\* C2: when a render pass P1 writes frame texture X and a later pass P2
\* blits with a material that samples X, the draw of P2 reads the texture
\* P1 wrote and finds in it what P1 wrote in this frame.
C2_ReadObservesWrite ==
    pc = "passes" =>
        \A j \in 1..(pass_index - 1) : \A i \in 1..(j - 1) :
            LET P1 == EnginePasses[i]
                P2 == EnginePasses[j]
            IN  (P1.type = "RenderPass" /\ P2.type = "RenderPass" /\ P2.blit_material.some) =>
                    \A X \in AttachmentTextures(P1) :
                        X.name \in FieldsSampledBy(BlitMaterial(P2)) =>
                            /\ X \in DOMAIN observed[j]
                            /\ observed[j][X] = [frame |-> frame, pass |-> i]

BeginsOf(commands, i) ==
    {k \in PositionsOf(commands, i) : commands[k].command.cmd = "begin_render_pass"}

\* the passes of a command list that have the field's texture as attachment
Writers(commands, field) ==
    {i \in PassesOf(commands) :
        \E k \in BeginsOf(commands, i) :
            \/ \E a \in 1..Len(commands[k].command.color_attachments) :
                    commands[k].command.color_attachments[a].texture.name = field
            \/ /\ commands[k].command.depth_stencil_attachment.some
               /\ commands[k].command.depth_stencil_attachment.value.texture.name = field}

\* the passes of a command list whose material samples the texture of the field
Readers(commands, field) ==
    {commands[k].pass :
        k \in {l \in 1..Len(commands) :
                /\ commands[l].command.cmd = "set_bind_group"
                /\ commands[l].command.group = "material"
                /\ \E e \in 1..Len(commands[l].command.bind_group.entries) :
                      LET entry == commands[l].command.bind_group.entries[e]
                      IN  /\ entry.resource.kind = "TextureView"
                          /\ entry.resource.of.texture.name = field}}

\* C3: in the pass list of a frame every frame texture is written by exactly
\* one pass, every pass whose material samples a frame texture comes
\* strictly after the pass that writes it, and no pass has a frame texture
\* both as attachment and as input.
C3_SingleWriterBeforeReaders ==
    LET commands == IF pc = "passes" THEN encoder ELSE submitted
    IN  \A field \in FrameTextureFields :
            /\ Cardinality(Writers(commands, field)) <= 1
            /\ FrameSubmitted => Cardinality(Writers(commands, field)) = 1
            /\ \A j \in Readers(commands, field) :
                    /\ Writers(commands, field) # {}
                    /\ \A i \in Writers(commands, field) : i < j

C3_Witness ==
    /\ FrameSubmitted
    /\ next_texture = 1
    /\ Readers(submitted, "ssao_kernel_map") = {7}
    /\ Writers(submitted, "ssao_kernel_map") = {6}
    /\ Readers(submitted, "albedo_map") = {8}

IsZeroSize(size) == size.width = 0 \/ size.height = 0

\* C10: Engine::resize with a width or a height of 0 changes neither the
\* surface configuration, the camera projection nor any frame texture, and
\* raises no error.
C10_ZeroResizeNoOp ==
    [][(last_call'.resize.some /\ IsZeroSize(last_call'.resize.value)) =>
            /\ UNCHANGED <<surface_configuration, projection, frame_textures>>
            /\ control_flow' = control_flow]_vars

\* a resize to a zero size that followed a resize to a positive size
C10_Witness ==
    /\ last_call.resize.some
    /\ IsZeroSize(last_call.resize.value)
    /\ next_texture = 2
    /\ frame_textures.z_buffer.texture.id = 1

Attributes(textures) ==
    [f \in DOMAIN textures |->
        [format |-> textures[f].format, label |-> textures[f].label,
         compare |-> textures[f].compare,
         width |-> textures[f].width, height |-> textures[f].height]]

\* the handler that ran last called Engine::resize with a positive size, and
\* the handler before it called Engine::resize with that same size
ResizedTwice(call) ==
    /\ call.resize.some
    /\ ~IsZeroSize(call.resize.value)
    /\ call.repeated

\* C12: the second of two Engine::resize calls in a row with the same
\* positive size leaves every frame texture with the format, label, compare
\* function and dimensions the first call left it with.
C12_ResizeIdempotent ==
    [][ResizedTwice(last_call') =>
            Attributes(frame_textures') = Attributes(frame_textures)]_vars

C12_Witness ==
    /\ ResizedTwice(last_call)
    /\ next_texture = 3
    /\ frame_textures.z_buffer.texture.id = 2
    /\ frame_textures.z_buffer.width = 2
    /\ frame_textures.z_buffer.height = 1

-----------------------------------------------------------------------------
(* Surface errors and the frame loop                                       *)

SurfaceErrors == {"Lost", "OutOfMemory", "Outdated", "Timeout"}

\* the step is a draw_frame whose get_current_texture failed with `error`
FailsWith(call, error) == call.fn = "draw_frame" /\ call.error = Some(error)

\* C14: a surface-acquisition error never propagates past the frame in
\* which it occurred: for Lost, Outdated and Timeout draw_frame returns
\* with the control flow left at Poll and the frame loop goes on to the next
\* frame; OutOfMemory, and no other outcome, sets the control flow to Exit,
\* which ends the loop.
C14_ErrorsStayInFrame ==
    /\ [][\A error \in SurfaceErrors :
            FailsWith(last_call', error) /\ frame' = frame + 1 =>
                /\ pc' = "idle"
                /\ control_flow' = IF error = "OutOfMemory" THEN "Exit" ELSE "Poll"]_vars
    /\ [][control_flow' = "Exit" /\ control_flow = "Poll" =>
            FailsWith(last_call', "OutOfMemory")]_vars
    /\ [](control_flow = "Exit" => ~ENABLED EngineNext)
    /\ [](pc = "idle" /\ control_flow = "Poll" /\ frame < MaxFrames =>
            ENABLED FrameBegins)

C14_Witness ==
    /\ FailsWith(last_call, "Timeout")
    /\ frame = 2
    /\ control_flow = "Poll"
    /\ pc = "idle"
    /\ submitted # << >>

-----------------------------------------------------------------------------
(* Queue submission                                                        *)

Count(events, event) == Len(SelectSeq(events, LAMBDA e : e = event))

-----------------------------------------------------------------------------
(* The scene draw                                                          *)

\* the passes whose body is draw_scene
IsScenePass(pass) ==
    IF pass.type # "RenderPass" THEN FALSE
    ELSE pass.label = "Pass: Calc Voxel Lightmap" \/ ~pass.blit_material.some

\* the commands of pass i of a tagged command sequence
CommandsOf(commands, i) ==
    LET of_i == SelectSeq(commands, LAMBDA c : c.pass = i)
    IN  [k \in 1..Len(of_i) |-> of_i[k].command]

DrawsOf(commands) == SelectSeq(commands, LAMBDA c : c.cmd = "draw_indexed")

InstanceBuffersOf(commands) ==
    SelectSeq(commands, LAMBDA c : c.cmd = "set_vertex_buffer" /\ c.slot = 1)

\* the Model components of the scene, entity by entity in the order of the
\* iterator, each entity's in component order
TraversedModels == ModelsOf(scene, EntitiesFrom(scene, Entity_iter(RootEntity)), 1)

\* every Model component of every entity of the scene
ModelComponents ==
    {<<e, k>> \in (1..Len(scene)) \X (1..2) :
        k <= Len(scene[e].components) /\ scene[e].components[k].type = "Model"}

Recording == pc \in {"passes", "present"}

\* C17: a scene draw issues exactly one indexed, instanced draw call for
\* each Model component of each entity of the scene root's tree, in
\* traversal order and within an entity in component order, over the
\* instances 0..instance_list.len and the indices 0..index_count.
C17_OneDrawPerModel ==
    Recording =>
        \A i \in 1..(pass_index - 1) :
            IsScenePass(EnginePasses[i]) =>
                LET draws == DrawsOf(CommandsOf(encoder, i))
                IN  /\ Len(draws) = Cardinality(ModelComponents)
                    /\ Len(draws) = Len(TraversedModels)
                    /\ \A k \in 1..Len(draws) :
                          LET model == TraversedModels[k]
                          IN  /\ draws[k].instances = model.instances.instance_list.len
                              /\ draws[k].indices =
                                    at(resources.meshes, model.mesh.value).index_count

C17_Witness ==
    /\ Recording
    /\ \E i \in 1..(pass_index - 1) :
          /\ IsScenePass(EnginePasses[i])
          /\ LET draws == DrawsOf(CommandsOf(encoder, i))
             IN  /\ Len(draws) = 4
                 /\ draws[1] = DrawIndexed(24, 1)
                 /\ draws[3] = DrawIndexed(36, 100)

\* C18: every Model of the scene has an instance buffer, built from the
\* instance list the Model holds now, whatever constructions, updates and
\* frames came before; each draw of a Model binds that buffer at slot 1.
C18_InstanceBufferCurrent ==
    /\ \A m \in ModelComponents :
          LET instances == scene[m[1]].components[m[2]].instances
          IN  /\ instances.instances_buffer.some
              /\ instances.instances_buffer.value.built_from = instances.instance_list
    /\ Recording =>
          \A i \in 1..(pass_index - 1) :
              IsScenePass(EnginePasses[i]) =>
                  LET commands == CommandsOf(encoder, i)
                      buffers == InstanceBuffersOf(commands)
                  IN  /\ ~IsPanic(commands)
                      /\ Len(buffers) = Len(TraversedModels)
                      /\ \A k \in 1..Len(buffers) :
                            buffers[k].buffer.built_from =
                                TraversedModels[k].instances.instance_list

C18_Witness ==
    /\ Recording
    /\ frame = 2
    /\ \E i \in 1..(pass_index - 1) :
          /\ IsScenePass(EnginePasses[i])
          /\ LET buffers == InstanceBuffersOf(CommandsOf(encoder, i))
             IN  /\ Len(buffers) = 4
                 /\ buffers[4].buffer.built_from = InstanceList(1, 3)
                 /\ buffers[3].buffer.built_from.len = 100

-----------------------------------------------------------------------------
(* Engine::load step by step, over assets directories that may be bad      *)

\* sponza_pbr.obj with a mesh whose material names no albedo map
SponzaNoAlbedo ==
    << Mesh("sponza_arch", 12, None, Some("sponza_arm.png"), Some("sponza_normal.png")),
       Mesh("sponza_floor", 24, Some("sponza_albedo.png"), Some("sponza_arm.png"),
            Some("sponza_normal.png")) >>

\* the assets directories the load is run on: each model file loadable or
\* not, a shader source and a texture file present or not
LoadAssets ==
    {[models |-> ("cube.obj" :> cube) @@ ("sponza_pbr.obj" :> sponza),
      shaders |-> shaders, textures |-> textures, hash_order |-> hash_order] :
        cube \in {Some(CubeMeshes), None},
        sponza \in {Some(SponzaMeshes), Some(SponzaNoAlbedo), None},
        shaders \in {ShaderFiles, ShaderFiles \ {"scene_deferred.wgsl"}},
        textures \in {TextureFiles, TextureFiles \ {"cube_arm.png"}},
        hash_order \in HashOrders}

LoadInit ==
    /\ loading \in {[step |-> "start", assets |-> assets, model_meshes |-> << >>,
                     next |-> 1, constructed |-> << >>, panic |-> None] :
                        assets \in LoadAssets}
    /\ resources = LoadedResources_new
    /\ scene = << >>
    /\ window_size = [width |-> 1, height |-> 1]
    /\ surface_configuration = window_size
    /\ projection = [aspect |-> Aspect(window_size.width, window_size.height)]
    /\ frame_textures = EngineFrameTextures(surface_configuration)
    /\ next_texture = 1
    /\ contents = << >>
    /\ pc = "load"
    /\ pass_index = 0
    /\ encoder = << >>
    /\ submitted = << >>
    /\ observed = << >>
    /\ frame = 0
    /\ control_flow = "Poll"
    /\ last_call = NoCall
    /\ inserts = 0
    /\ input = NoInput
    /\ result = NoResult
    /\ draw_commands = << >>
    /\ stack = << >>
    /\ visited = << >>
    /\ frame_events = << >>
    /\ submitted_in = NoSubmission

LoadUnchanged ==
    UNCHANGED <<input, result, pc, inserts, surface_configuration, window_size,
                projection, frame_textures, next_texture, pass_index, encoder,
                submitted, contents, observed, control_flow, last_call, stack,
                visited, frame_events, submitted_in>>

\* load: preload_model_files
PreloadModelFiles ==
    /\ loading.step = "start"
    /\ LET preloaded == preload_model_files(resources, loading.assets)
       IN  /\ resources' = preloaded.resources
           /\ loading' = [loading EXCEPT !.step = "preloaded",
                                         !.model_meshes = preloaded.model_meshes]
    /\ UNCHANGED <<scene, draw_commands, frame>>
    /\ LoadUnchanged

\* load: build_scene
BuildScene ==
    /\ loading.step = "preloaded"
    /\ scene' = build_scene(loading.model_meshes)
    /\ loading' = [loading EXCEPT !.step = "built"]
    /\ UNCHANGED <<resources, draw_commands, frame>>
    /\ LoadUnchanged

\* a panic inside load unwinds out of Engine::load and main
Aborted(panic) ==
    /\ loading' = [loading EXCEPT !.step = "aborted", !.panic = Some(panic.message)]
    /\ UNCHANGED resources

\* load_resources: the blit quad and the shaders
LoadShaderFiles ==
    /\ loading.step = "built"
    /\ LET shaders == LoadShaders(InsertBlitQuad(resources), loading.assets)
       IN  IF shaders.ok
           THEN /\ resources' = shaders.value
                /\ loading' = [loading EXCEPT !.step = "shaders"]
           ELSE Aborted(shaders)
    /\ UNCHANGED <<scene, draw_commands, frame>>
    /\ LoadUnchanged

\* load_resources: the textures, those marked while walking the meshes last
LoadTextureFiles ==
    /\ loading.step = "shaders"
    /\ LET textures ==
            LoadTextures(resources, loading.assets,
                textures_to_load(resources, loading.model_meshes,
                                 loading.assets.hash_order))
       IN  IF textures.ok
           THEN /\ resources' = textures.value
                /\ loading' = [loading EXCEPT !.step = "textures"]
           ELSE Aborted(textures)
    /\ UNCHANGED <<scene, draw_commands, frame>>
    /\ LoadUnchanged

\* the list the last loop of load_resources walks
LoadingMaterials ==
    combined_materials(resources, loading.model_meshes, loading.assets.hash_order,
                       frame_textures)

\* load_resources: one iteration of `for material_definition in
\* combined_materials`
ConstructMaterial ==
    /\ loading.step = "textures"
    /\ loading.next <= Len(LoadingMaterials)
    /\ LET definition == LoadingMaterials[loading.next]
           material == MaterialNew(definition.name, definition.shader,
                                   definition.data, resources)
       IN  IF material.ok
           THEN /\ resources' = [resources EXCEPT !.materials =
                                    insert(@, definition.name, material.value)]
                /\ loading' = [loading EXCEPT
                                  !.next = @ + 1,
                                  !.constructed = Append(@, definition.name)]
           ELSE Aborted(material)
    /\ UNCHANGED <<scene, draw_commands, frame>>
    /\ LoadUnchanged

\* Model references resolved before the materials have been constructed
LoadModels_BeforeMaterials ==
    /\ loading.step = "textures"
    /\ scene' = load_models_on_descendants(scene, resources)
    /\ loading' = [loading EXCEPT !.step = "loaded"]
    /\ UNCHANGED <<resources, draw_commands, frame>>
    /\ LoadUnchanged

\* load: load_models_on_descendants, after which load returns
LoadModels ==
    /\ loading.step = "textures"
    /\ loading.next > Len(LoadingMaterials)
    /\ scene' = load_models_on_descendants(scene, resources)
    /\ loading' = [loading EXCEPT !.step = "loaded"]
    /\ UNCHANGED <<resources, draw_commands, frame>>
    /\ LoadUnchanged

\* render without the surface: the commands of the passes in list order, up
\* to the first pass that panics
RECURSIVE RenderFrom(_, _, _, _)
RenderFrom(res, entities, passes, i) ==
    IF i > Len(passes) THEN << >>
    ELSE LET here == PassCommands(res, entities, passes[i])
         IN  IF IsPanic(here) THEN here
             ELSE here \o RenderFrom(res, entities, passes, i + 1)

\* the first frame after load: update, then render
FirstFrame ==
    /\ loading.step = "loaded"
    /\ frame' = 1
    /\ scene' = update(scene)
    /\ draw_commands' = RenderFrom(resources, scene', Passes(frame_textures, resources), 1)
    /\ loading' = [loading EXCEPT
                      !.step = IF IsPanic(draw_commands')
                               THEN "frame panicked" ELSE "frame loop"]
    /\ UNCHANGED resources
    /\ LoadUnchanged

\* a resize once load has returned
LoadedResize ==
    \E new_size \in Sizes :
        /\ loading.step \in {"loaded", "frame loop"}
        /\ CanResize(new_size)
        /\ Resized(new_size)
        /\ window_size' = new_size
        /\ UNCHANGED <<resources, scene, loading, draw_commands, frame, input, result,
                       pc, inserts, pass_index, encoder, submitted, observed,
                       control_flow, last_call, stack, visited, frame_events,
                       submitted_in>>

LoadNext ==
    \/ PreloadModelFiles
    \/ BuildScene
    \/ LoadShaderFiles
    \/ LoadTextureFiles
    \/ ConstructMaterial
    \/ LoadModels
    \/ FirstFrame
    \/ LoadedResize

SpecLoad == LoadInit /\ [][LoadNext]_vars

\* C19: during scene load each Material name is constructed exactly once,
\* and once load has returned no Material is constructed or replaced.
C19_ConstructedOnce ==
    /\ [](\A i, j \in 1..Len(loading.constructed) :
            i # j => loading.constructed[i] # loading.constructed[j])
    /\ [][loading.step \in {"loaded", "frame loop", "frame panicked"} =>
            resources'.materials = resources.materials]_vars

\* the load-time inputs the load reads
ModelFileBad(assets) == \E file \in DOMAIN assets.models : ~assets.models[file].some

LoadedMeshes(assets) ==
    UNION {{assets.models[file].value[k] : k \in 1..Len(assets.models[file].value)} :
            file \in {f \in DOMAIN assets.models : assets.models[f].some}}

ShaderSourceMissing(assets) == assets.shaders # ShaderFiles

TextureUnloadable(assets) ==
    \E mesh \in LoadedMeshes(assets) :
        \E map \in {mesh.map_albedo, mesh.map_arm, mesh.map_normal} :
            map.some /\ map.value \notin assets.textures

BindingMismatch(assets) ==
    \E mesh \in LoadedMeshes(assets) :
        ~mesh.map_albedo.some \/ ~mesh.map_arm.some \/ ~mesh.map_normal.some

BadInput(assets) ==
    \/ ModelFileBad(assets)
    \/ ShaderSourceMissing(assets)
    \/ TextureUnloadable(assets)
    \/ BindingMismatch(assets)

\* C20: if any load-time input is bad (a model file missing or malformed, a
\* shader source missing, a texture that cannot be loaded, a Material/Shader
\* binding mismatch) Engine::load aborts: load never returns and no frame is
\* drawn on a scene from which the failed resource is absent.
C20_BadInputAborts ==
    BadInput(loading.assets) => loading.step \notin {"loaded", "frame loop", "frame panicked"}

-----------------------------------------------------------------------------
(* Resource tables and the frame loop                                      *)

LoadReturned == loading.step \in {"loaded", "frame loop", "frame panicked"}

\* the names of the materials the load is to construct
MaterialsToConstruct ==
    {LoadingMaterials[k].name : k \in 1..Len(LoadingMaterials)}

\* C21: every insert into the shader, texture, material and mesh tables
\* happens inside Engine::load, in the order meshes preloaded, scene built,
\* resources loaded, Model references resolved; once load has returned no
\* step (update, render, resize) inserts anything.
C21_InsertsOnlyInLoad ==
    /\ [][resources'.meshes # resources.meshes =>
            loading.step \in {"start", "built"}]_vars
    /\ [][resources'.shaders # resources.shaders => loading.step = "built"]_vars
    /\ [][resources'.textures # resources.textures => loading.step = "shaders"]_vars
    /\ [][resources'.materials # resources.materials => loading.step = "textures"]_vars
    /\ [][scene = << >> /\ scene' # << >> => loading.step = "preloaded"]_vars
    /\ [](loading.step \in {"start", "preloaded"} =>
            /\ Len(resources.shaders) = 0
            /\ Len(resources.textures) = 0
            /\ Len(resources.materials) = 0)
    /\ [][loading'.step = "loaded" /\ loading.step # "loaded" =>
            /\ \A name \in MaterialsToConstruct : contains_key(resources.materials, name)
            /\ resources' = resources]_vars
    /\ [][LoadReturned => resources' = resources /\ LoadReturned']_vars

C21_Witness ==
    /\ loading.step = "frame loop"
    /\ surface_configuration # [width |-> 1, height |-> 1]
    /\ Len(resources.materials) = 11
    /\ Len(resources.meshes) = 4
    /\ draw_commands # << >>

-----------------------------------------------------------------------------
(* Two frames in a row                                                     *)

\* the pass begins with their attachments, the bind-group bindings and the
\* draw and dispatch calls of a command sequence, in order
Issued(commands) ==
    SelectSeq(commands,
        LAMBDA c : c.command.cmd \in {"begin_render_pass", "begin_compute_pass",
                                      "set_bind_group", "draw_indexed", "dispatch"})

\* the frame being submitted follows a submitted frame with no resize between
FollowsSubmittedFrame ==
    /\ pc = "passes"
    /\ LoopDone(pass_index, EnginePasses)
    /\ submitted_in.frame = frame - 1
    /\ submitted_in.textures = frame_textures

\* C22: with a fixed scene tree and no resize between them, two consecutive
\* successful frames issue the same sequence of pass begins, attachment
\* resolutions, bind-group bindings and draw and dispatch calls.
C22_FramesRepeat ==
    FollowsSubmittedFrame => Issued(encoder) = Issued(submitted)

C22_Witness ==
    /\ FollowsSubmittedFrame
    /\ frame = 2
    /\ Issued(encoder) = Issued(submitted)
    /\ encoder # submitted
    /\ Len(Issued(encoder)) > Len(EnginePasses)

-----------------------------------------------------------------------------
(* Scene passes and blit passes                                            *)

MaterialGroupsOf(commands) ==
    SelectSeq(commands, LAMBDA c : c.cmd = "set_bind_group" /\ c.group = "material")

VertexBuffersOf(commands) ==
    SelectSeq(commands, LAMBDA c : c.cmd = "set_vertex_buffer")

\* C23: for every RenderPass that render executes the blit material decides
\* what is drawn: with None the pass draws the whole scene, with Some(name)
\* it issues exactly one full-screen quad draw, not instanced (6 indices,
\* instances 0..1), with the named material, and no scene geometry.
C23_BlitMaterialDecides ==
    Recording =>
        \A i \in 1..(pass_index - 1) :
            EnginePasses[i].type = "RenderPass" =>
                LET commands == CommandsOf(encoder, i)
                    draws == DrawsOf(commands)
                    groups == MaterialGroupsOf(commands)
                    buffers == VertexBuffersOf(commands)
                    blit_material == EnginePasses[i].blit_material
                IN  IF ~blit_material.some
                    THEN /\ Len(draws) = Cardinality(ModelComponents)
                         /\ \A k \in 1..Len(buffers) :
                                buffers[k].slot = 0 => buffers[k].buffer # "QUAD"
                    ELSE /\ draws = << DrawIndexed(6, 1) >>
                         /\ Len(buffers) = 1
                         /\ buffers[1].slot = 0
                         /\ buffers[1].buffer = "QUAD"
                         /\ Len(groups) = 1
                         /\ groups[1].bind_group =
                                get(resources.materials, blit_material.value).value.bind_group

C23_Witness ==
    /\ Recording
    /\ pass_index > 6
    /\ ~EnginePasses[5].blit_material.some
    /\ Len(DrawsOf(CommandsOf(encoder, 5))) = 4
    /\ EnginePasses[6].blit_material = Some("pass_ssao_kernel.material")
    /\ DrawsOf(CommandsOf(encoder, 6)) = << DrawIndexed(6, 1) >>

-----------------------------------------------------------------------------
(* Behavior updates, lookups and the two traversals                        *)

Updated == result.fn = "update_behaviors_of_descendants"

\* the Behavior components of a tree, as pairs of entity and position
BehaviorsOf(entities) ==
    {<<e, k>> \in (1..Len(entities)) \X (1..3) :
        k <= Len(entities[e].components) /\ entities[e].components[k].type = "Behavior"}

\* every behavior of the tree changes the transform of its entity and
\* nothing else
TransformOnly(entities) ==
    \A b \in BehaviorsOf(entities) :
        entities[b[1]].components[b[2]].script = "LightCubeMovement"

CallsOn(calls, e) == SelectSeq(calls, LAMBDA c : c.entity = e)

\* C24: after update_behaviors_of_descendants returns every entity has the
\* component list it had before, and every Behavior component of every
\* entity has been updated exactly once, in component order, provided the
\* behaviors change only the transform of their own entity.
C24_ComponentsKept ==
    Updated /\ TransformOnly(result.before) =>
        /\ Len(scene) = Len(result.before)
        /\ \A e \in 1..Len(scene) :
              /\ scene[e].components = result.before[e].components
              /\ scene[e].children = result.before[e].children
              /\ scene[e].transform.y =
                    result.before[e].transform.y
                        + Cardinality({b \in BehaviorsOf(result.before) : b[1] = e})
              /\ LET calls == CallsOn(result.calls, e)
                 IN  \A i, j \in 1..Len(calls) :
                        i < j => calls[i].component < calls[j].component
        /\ Len(result.calls) = Cardinality(BehaviorsOf(result.before))
        /\ \A b \in BehaviorsOf(result.before) :
              \E i \in 1..Len(result.calls) :
                  result.calls[i].entity = b[1] /\ result.calls[i].component = b[2]

C24_Witness ==
    /\ Updated
    /\ TransformOnly(result.before)
    /\ Len(scene) = 3
    /\ Len(result.calls) = 5
    /\ scene[2].transform.y = 2
    /\ Len(scene[2].components) = 3

\* C25: find_entity and find_entity_mut return the root when the name is
\* the root's, otherwise the first direct child of the root of that name,
\* otherwise None; the entity returned always has the name asked for.
C25_FindByName ==
    input.name # "" =>
        LET children == scene[RootEntity].children
            matches == {k \in 1..Len(children) : scene[children[k]].name = input.name}
            expected ==
                IF input.name = scene[RootEntity].name THEN Some(RootEntity)
                ELSE IF matches = {} THEN None
                ELSE Some(children[CHOOSE k \in matches : \A l \in matches : k <= l])
        IN  /\ input.found = expected
            /\ input.found_mut = expected
            /\ input.found.some => scene[input.found.value].name = input.name

C25_Witness ==
    /\ input.name = "Scene Root"
    /\ input.found = Some(RootEntity)
    /\ input.found_mut = Some(RootEntity)
    /\ Len(scene) = 3
    /\ scene[2].name = "Scene Root"
    /\ scene[RootEntity].children = <<2, 3>>

\* depth-first pre-order with the children of each node in list order
RECURSIVE PreOrder(_, _)
RECURSIVE PreOrderOfAll(_, _, _)
PreOrderOfAll(entities, children, i) ==
    IF i > Len(children) THEN << >>
    ELSE PreOrder(entities, children[i]) \o PreOrderOfAll(entities, children, i + 1)

PreOrder(entities, e) == << e >> \o PreOrderOfAll(entities, entities[e].children, 1)

\* C27: the behavior-update traversal and the draw traversal visit the
\* entities of the same tree in the same order, depth-first pre-order with
\* the children of each node in list order.
C27_SameTraversalOrder ==
    pc = "drawn" =>
        /\ result.visits = PreOrder(scene, RootEntity)
        /\ visited = PreOrder(scene, RootEntity)
        /\ visited = result.visits

\* C30 as stated: every behavior receives an entity whose component list
\* is empty, and what it adds is gone after the update returns.
C30_EmptyWhileUpdating ==
    Updated =>
        /\ \A i \in 1..Len(result.calls) : result.calls[i].seen = << >>
        /\ \A e \in 1..Len(scene) : scene[e].components = result.before[e].components

\* the components pushed by the behaviors of the entity of call i that ran
\* before it
PushedBefore(calls, before, i) ==
    LET earlier == {j \in 1..(i - 1) :
                        /\ calls[j].entity = calls[i].entity
                        /\ before[calls[j].entity].components[calls[j].component].script
                                = "AddsComponent"}
    IN  [k \in 1..Cardinality(earlier) |-> CameraComponent]

\* C30: while a behavior's update runs, the entity it receives holds none
\* of the components it had before the call: its list holds what earlier
\* behaviors of the same entity pushed during this call and nothing else
\* (it is empty for the first behavior of an entity); whatever is pushed is
\* gone after the update returns.
C30_DetachedWhileUpdating ==
    Updated =>
        /\ \A i \in 1..Len(result.calls) :
              result.calls[i].seen = PushedBefore(result.calls, result.before, i)
        /\ \A e \in 1..Len(scene) :
              /\ scene[e].components = result.before[e].components
              /\ \A i \in 1..Len(result.calls) :
                    (result.calls[i].entity = e
                        /\ \A j \in 1..(i - 1) : result.calls[j].entity # e)
                    => result.calls[i].seen = << >>

C30_Witness ==
    /\ Updated
    /\ Len(scene) = 2
    /\ result.before[2].components =
            << BehaviorComponent("AddsComponent"), BehaviorComponent("AddsComponent") >>
    /\ Len(result.calls) = 2
    /\ result.calls[1].seen = << >>
    /\ result.calls[2].seen = << CameraComponent >>
    /\ scene[2].components = result.before[2].components

-----------------------------------------------------------------------------
(* Bind groups of the blit materials across resizes                        *)

\* the textures whose views the material bind groups set by pass i of the
\* recorded commands hold
TexturesBoundIn(commands, i) ==
    SampledTextures([k \in 1..Cardinality(PositionsOf(commands, i)) |->
        commands[CHOOSE p \in PositionsOf(commands, i) :
            Cardinality({q \in PositionsOf(commands, i) : q < p}) = k - 1].command])

\* C26: in every frame, after any resizes, each blit material that samples
\* a frame texture is bound to the current texture of that field, the one
\* the writing pass has as its attachment in this frame.
C26_BlitSamplesCurrent ==
    pc = "passes" =>
        \A i \in 1..(pass_index - 1) :
            (EnginePasses[i].type = "RenderPass" /\ EnginePasses[i].blit_material.some) =>
                \A X \in TexturesBoundIn(encoder, i) :
                    X.name \in FrameTextureFields => X = frame_textures[X.name].texture

-----------------------------------------------------------------------------
(* Materials and the shader their shader_id denotes                        *)

-----------------------------------------------------------------------------
(* Mesh::load: the texture maps of a mesh (mesh.rs)                        *)

\* the materials a .mtl file can declare: each texture name set or empty
ObjMaterials ==
    [diffuse_texture : {"", "albedo.png"},
     shininess_texture : {"", "arm.png"},
     normal_texture : {"", "normal.png"}]

\* the models of an .obj file: one mesh, its material_id and the materials
\* of the file
ObjModels ==
    {[name |-> "BeveledCube", index_count |-> 36, material_id |-> id,
      obj_materials |-> << first, second >>] :
        id \in {None, Some(0), Some(1)}, first \in ObjMaterials, second \in ObjMaterials}

\* String::is_empty
is_empty(string) == string = ""

\* Some(name).filter(String::is_empty): Some when the predicate holds of
\* the name, None otherwise
FilterIsEmpty(name) == IF is_empty(name) THEN Some(name) ELSE None

\* Mesh::load, the mesh built from one model of the file
MeshOfModel(m) ==
    IF m.material_id.some
    THEN LET material == m.obj_materials[m.material_id.value + 1]
         IN  Mesh(m.name, m.index_count,
                  FilterIsEmpty(material.diffuse_texture),
                  FilterIsEmpty(material.shininess_texture),
                  FilterIsEmpty(material.normal_texture))
    ELSE Mesh(m.name, m.index_count, None, None, None)

NoMesh == [fn |-> "none"]

MeshInit ==
    /\ input \in ObjModels
    /\ result = NoMesh
    /\ pc = "obj"
    /\ resources = LoadedResources_new
    /\ scene = << >>
    /\ stack = << >>
    /\ visited = << >>
    /\ draw_commands = << >>
    /\ inserts = 0
    /\ loading = NoLoading
    /\ surface_configuration = [width |-> 1, height |-> 1]
    /\ window_size = [width |-> 1, height |-> 1]
    /\ projection = [aspect |-> <<1, 1>>]
    /\ frame_textures = << >>
    /\ next_texture = 0
    /\ pass_index = 0
    /\ encoder = << >>
    /\ submitted = << >>
    /\ contents = << >>
    /\ observed = << >>
    /\ frame = 0
    /\ control_flow = "Poll"
    /\ last_call = NoCall
    /\ frame_events = << >>
    /\ submitted_in = NoSubmission

\* Mesh::load on the model
LoadMesh ==
    /\ pc = "obj"
    /\ result' = [fn |-> "Mesh::load", mesh |-> MeshOfModel(input),
                  textures |-> << >>, materials |-> << >>]
    /\ pc' = "mesh"
    /\ UNCHANGED <<resources, input, draw_commands, inserts, frameVars, scene, stack,
                   visited, loading>>

\* load_resources on the mesh: the textures it marks to be loaded and the
\* two materials it prepares
MarkTextures ==
    /\ pc = "mesh"
    /\ result' = [result EXCEPT
            !.fn = "load_resources",
            !.textures = Flatten(<< result.mesh.map_albedo, result.mesh.map_arm,
                                    result.mesh.map_normal >>),
            !.materials = MaterialsOfMesh(result.mesh)]
    /\ pc' = "marked"
    /\ UNCHANGED <<resources, input, draw_commands, inserts, frameVars, scene, stack,
                   visited, loading>>

MeshNext == LoadMesh \/ MarkTextures

SpecMesh == MeshInit /\ [][MeshNext]_vars

\* the texture name of the source material that a map of the mesh is taken
\* from, if the mesh has a source material
SourceName(m, field) ==
    IF m.material_id.some
    THEN Some(m.obj_materials[m.material_id.value + 1][field])
    ELSE None

\* C29: each texture-map name of a mesh loaded by Mesh::load is Some
\* exactly when the mesh has a source material and the material's texture
\* name for that map is a non-empty string, and None otherwise.
C29_MapsPresentWhenNamed ==
    pc # "obj" =>
        \A pair \in {<<"map_albedo", "diffuse_texture">>,
                     <<"map_arm", "shininess_texture">>,
                     <<"map_normal", "normal_texture">>} :
            LET source == SourceName(input, pair[2])
            IN  result.mesh[pair[1]].some <=> (source.some /\ source.value # "")

====
